---- MODULE Spec2Model ----
(***************************************************************************)
(* The per-request relay engine of laeproxy (src/laeproxy.py): one request *)
(* travelling through catch_deadline_exceeded(make_handler(method)).       *)
(*                                                                         *)
(* Text is modelled as a sequence of atoms (TLA+ strings): a header value  *)
(* "bytes=2-1" is <<"bytes","=","2","-","1">>, a path "/http/p/a?q" is     *)
(* <<"/","http","/","p","/","a","?q">>.  Splitting, stripping, unquoting   *)
(* and lower-casing work on the atoms, concatenation is \o.                *)
(***************************************************************************)
EXTENDS Integers, Sequences, FiniteSets, TLC

(***************************************************************************)
(* Bounds of the model.                                                    *)
(***************************************************************************)
\* longest host segment (in atoms) of an enumerated request path
MaxHostLen == 1
\* most comma-separated items of an enumerated multi-range Range header
MaxRanges == 2
\* longest body (in bytes) an origin returns to the older handler
MaxBodyLen == 3

(***************************************************************************)
(* src/constants.py                                                        *)
(***************************************************************************)
METHODS == {"delete", "get", "head", "put", "post"}
RANGE_METHODS == {"get"}
PAYLOAD_METHODS == {"put", "post"}

URLFETCH_REQ_MAXBYTES == 1024 * 1024 * 5
URLFETCH_REQ_MAXSECS == 60
RANGE_REQ_SIZE == 2000000

\* src/proxy.py, lines 79-93: the constants of the older handler
RES_MAXBYTES == 7340032  \* 1024 * 1024 * 7
EIGEN_HEADER_KEY == "X-laeproxy"
UPSTREAM_206 == "X-laeproxy-upstream-206"
TRUNC_HEADER_KEY == "X-laeproxy-truncated"
UPSTREAM_CONTENT_RANGE == "X-laeproxy-upstream-content-range"

H_LAEPROXY_VER == "X-laeproxy-version"
H_UPSTREAM_SERVER == "X-laeproxy-upstream-server"
H_UPSTREAM_STATUS_CODE == "X-laeproxy-upstream-status-code"
H_UPSTREAM_CONTENT_RANGE == "X-laeproxy-upstream-content-range"
H_TRUNCATED == "X-laeproxy-truncated"
H_LAEPROXY_RESULT == "X-laeproxy-result"

\* RETRIEVED_FROM_NET % now(): the timestamp is one opaque atom
RETRIEVED_FROM_NET == <<"Retrieved from network ", "<utcnow>">>
IGNORED_RECURSIVE == <<"Ignored recursive request">>
REQ_TOO_LARGE == <<"Request size exceeds urlfetch limit">>
MISSED_DEADLINE_URLFETCH == <<"Missed urlfetch deadline">>
MISSED_DEADLINE_GAE == <<" Missed GAE deadline">>
EXCEEDED_URLFETCH_QUOTA == <<"Exceeded urlfetch quota">>
\* UNEXPECTED_ERROR % e: the repr of the error is one opaque atom
UNEXPECTED_ERROR == <<"Unexpected error: ", "<repr>">>

HOPBYHOP ==
    {"connection", "keep-alive", "proxy-authenticate", "proxy-authorization",
     "te", "trailer", "transfer-encoding", "upgrade"}

\* __version__
VERSION == <<"0.7.1">>

(***************************************************************************)
(* Text helpers: str.lower, str.strip, str.split, str.lstrip, unquote.     *)
(***************************************************************************)
\* str.lower() on one atom
LowerAtom(a) ==
    CASE a = "P" -> "p"
      [] a = "X" -> "x"
      [] a = "Host" -> "host"
      [] a = "Range" -> "range"
      [] a = " Range" -> " range"
      [] a = "Keep-Alive" -> "keep-alive"
      [] a = "Connection" -> "connection"
      [] a = "Server" -> "server"
      [] a = "Location" -> "location"
      [] a = "Content-Range" -> "content-range"
      [] a = "Content-Type" -> "content-type"
      [] a = "X-Foo" -> "x-foo"
      [] a = " X-Foo" -> " x-foo"
      [] a = "X-laeproxy-version" -> "x-laeproxy-version"
      [] a = "X-laeproxy-upstream-server" -> "x-laeproxy-upstream-server"
      [] a = "X-laeproxy-upstream-status-code" -> "x-laeproxy-upstream-status-code"
      [] a = "X-laeproxy-upstream-content-range" -> "x-laeproxy-upstream-content-range"
      [] a = "X-laeproxy-truncated" -> "x-laeproxy-truncated"
      [] a = "X-laeproxy-result" -> "x-laeproxy-result"
      [] OTHER -> a

\* str.lower() on a text
Lower(s) == [i \in 1..Len(s) |-> LowerAtom(s[i])]

\* str.strip() on one atom
StripAtom(a) ==
    CASE a = " range" -> "range"
      [] a = " x-foo" -> "x-foo"
      [] a = " " -> ""
      [] OTHER -> a

\* urllib.unquote on one atom: a valid %XX escape is decoded
UnquoteAtom(a) ==
    CASE a = "%50" -> "P"
      [] a = "%70" -> "p"
      [] a = "%2F" -> "/"
      [] a = "%2570" -> "%70"
      [] OTHER -> a

\* variant: the escapes are decoded twice
unquote_Twice(s) == [i \in 1..Len(s) |-> UnquoteAtom(UnquoteAtom(s[i]))]

\* urllib.unquote
unquote(s) == [i \in 1..Len(s) |-> UnquoteAtom(s[i])]

\* index of the first atom equal to sep, 0 when there is none
IndexOf(s, sep) ==
    IF \E i \in 1..Len(s) : s[i] = sep
    THEN CHOOSE i \in 1..Len(s) : s[i] = sep /\ \A j \in 1..(i - 1) : s[j] # sep
    ELSE 0

\* s.split(sep, 1): a list of one or two texts
Split1(s, sep) ==
    LET i == IndexOf(s, sep)
    IN  IF i = 0 THEN <<s>>
        ELSE <<SubSeq(s, 1, i - 1), SubSeq(s, i + 1, Len(s))>>

\* s.split(sep): the list of all pieces
RECURSIVE SplitAll(_, _)
SplitAll(s, sep) ==
    LET i == IndexOf(s, sep)
    IN  IF i = 0 THEN <<s>>
        ELSE <<SubSeq(s, 1, i - 1)>> \o SplitAll(SubSeq(s, i + 1, Len(s)), sep)

\* s.lstrip(c)
RECURSIVE LStrip(_, _)
LStrip(s, c) ==
    IF Len(s) > 0 /\ s[1] = c THEN LStrip(Tail(s), c) ELSE s

\* s.startswith(a) for a one-atom prefix
StartsWith(s, a) == Len(s) > 0 /\ s[1] = a

(***************************************************************************)
(* Header mappings.  A mapping is a function from the names present to     *)
(* their values; names are matched case-insensitively (webob headers,      *)
(* urlfetch's caseless dict).                                              *)
(***************************************************************************)
EmptyHeaders == [k \in {} |-> <<>>]

\* name in headers
Has(h, name) == \E k \in DOMAIN h : LowerAtom(k) = LowerAtom(name)

\* headers.get(name, default)
Get(h, name, default) ==
    IF Has(h, name)
    THEN h[CHOOSE k \in DOMAIN h : LowerAtom(k) = LowerAtom(name)]
    ELSE default

\* headers[name] = value: replaces any entry of the same name, whatever its case
Put(h, name, value) ==
    LET kept == {x \in DOMAIN h : LowerAtom(x) # LowerAtom(name)}
    IN  [k \in kept \cup {name} |-> IF k = name THEN value ELSE h[k]]

(***************************************************************************)
(* req.range: the Range header as webob 1.1.1 parses it (the library the   *)
(* handler reads it through, laeproxy.py:153-162).  A parsed range is      *)
(* [begin, end, open]: end is exclusive, open stands for end = None.       *)
(***************************************************************************)
\* the numbers whose decimal form occurs as an atom
Numerals ==
    {0, 1, 2, 3, 4, 5, 7, 8,
     RANGE_REQ_SIZE - 1, RANGE_REQ_SIZE, RANGE_REQ_SIZE + 1,
     RES_MAXBYTES - 1, RES_MAXBYTES, RES_MAXBYTES + 1}

IsNumeral(a) == \E n \in Numerals : ToString(n) = a

NumeralValue(a) == CHOOSE n \in Numerals : ToString(n) = a

\* whether int(text) succeeds: digits, or a sign and digits
IntOk(t) ==
    \/ Len(t) = 1 /\ IsNumeral(t[1])
    \/ Len(t) = 2 /\ t[1] = "-" /\ IsNumeral(t[2])

\* int(text)
IntOf(t) == IF Len(t) = 1 THEN NumeralValue(t[1]) ELSE 0 - NumeralValue(t[2])

NoRange == [ok |-> FALSE, ranges |-> <<>>]

\* Python 2 ordering of last_end against a number: None sorts below every number
LastEndBelow(last, n) == last.none \/ last.v < n

\* the closed item 'x-y' of Range.parse_bytes accepted with end = y + 1 when begin < end
ClosedItemOk(begin, end) == begin < end

\* the loop of Range.parse_bytes over the comma-separated items; a ValueError gives NoRange
RECURSIVE ParseItems(_, _, _)
ParseItems(items, last, acc) ==
    IF items = <<>> THEN [ok |-> TRUE, ranges |-> acc]
    ELSE
      LET item == Head(items)
          pair == Split1(item, "-")
      IN  IF IndexOf(item, "-") = 0 THEN NoRange
          ELSE IF StartsWith(item, "-")
          THEN \* a trailing chunk: begin = int(item), end = None, last_end = -1
               IF LastEndBelow(last, 0) \/ ~IntOk(item) THEN NoRange
               ELSE ParseItems(Tail(items), [none |-> FALSE, v |-> 0 - 1],
                               Append(acc, [begin |-> IntOf(item), end |-> 0, open |-> TRUE]))
          ELSE IF ~IntOk(pair[1]) THEN NoRange
          ELSE IF (~last.none /\ IntOf(pair[1]) < last.v) \/ LastEndBelow(last, 0)
               THEN NoRange
          ELSE IF pair[2] = <<>>
               THEN \* open-ended: end = None, last_end = None
                    ParseItems(Tail(items), [none |-> TRUE, v |-> 0],
                               Append(acc, [begin |-> IntOf(pair[1]), end |-> 0, open |-> TRUE]))
          ELSE IF ~IntOk(pair[2]) THEN NoRange
          ELSE IF ~ClosedItemOk(IntOf(pair[1]), IntOf(pair[2]) + 1) THEN NoRange
          ELSE ParseItems(Tail(items), [none |-> FALSE, v |-> IntOf(pair[2]) + 1],
                          Append(acc, [begin |-> IntOf(pair[1]),
                                       end |-> IntOf(pair[2]) + 1, open |-> FALSE]))

\* webob's parse_range: None for an empty value, for a header without '=', for units
\* other than bytes and for any item that does not parse
ParseRange(value) ==
    IF value = <<>> THEN NoRange
    ELSE LET halves == Split1(value, "=")
         IN  IF Len(halves) # 2 THEN NoRange
             ELSE IF Lower(halves[1]) # <<"bytes">> THEN NoRange
             ELSE ParseItems(SplitAll(halves[2], ","), [none |-> FALSE, v |-> 0], <<>>)

\* req.range, read from the request's headers as they are at that moment
ReqRange(headers) ==
    IF Has(headers, "range") THEN ParseRange(Get(headers, "range", <<>>)) ELSE NoRange

(***************************************************************************)
(* The requests and the origin answers the model enumerates.               *)
(***************************************************************************)
\* all texts of at most n atoms over the alphabet
RECURSIVE TextsUpTo(_, _)
TextsUpTo(alphabet, n) ==
    IF n = 0 THEN {<<>>}
    ELSE LET shorter == TextsUpTo(alphabet, n - 1)
         IN  shorter \cup {Append(t, a) : t \in shorter, a \in alphabet}

\* req.host: the authority the proxy itself was addressed at
OwnHost == <<"P">>

\* host segments of a request path: texts of "p" and the escape of "P", one
\* host that is not the proxy's, and one whose escape decodes to an escape
HostSegments == TextsUpTo({"p", "%50"}, MaxHostLen) \cup {<<"x">>, <<"%2570">>}

PathTails == {<<>>, <<"/", "a", "/", "%50", "?q">>}

\* the route of the application: r'/http(s)?/.*'
Routed(path) ==
    /\ Len(path) >= 3
    /\ path[1] = "/"
    /\ path[2] \in {"http", "https"}
    /\ path[3] = "/"

Paths ==
    {p \in {<<"/", s, "/">> \o h \o t :
              s \in {"http", "https"}, h \in HostSegments, t \in PathTails} :
       Routed(p)}

ClosedRanges ==
    {<<"bytes", "=", ToString(x), "-", ToString(y)>> :
        x \in {0, 1, 2},
        y \in {0, 1, RANGE_REQ_SIZE, RANGE_REQ_SIZE + 1}}

OddRanges ==
    { <<>>, <<"garbage">>, <<"bytes", "=">>,
      <<"bytes", "=", "5", "-">>, <<"bytes", "=", "-", "5">>,
      <<"bytes", "=", "5">>, <<"bytes", "=", "-", "3", "-", "5">>,
      <<"items", "=", "0", "-", "1">> }

MultiItems == {<<"4", "-", "5">>, <<"7", "-", "8">>, <<"7", "-">>, <<"-", "3">>}

\* the comma-joined lists of exactly n items
RECURSIVE ItemLists(_)
ItemLists(n) ==
    IF n = 1 THEN MultiItems
    ELSE {l \o <<",">> \o i : l \in ItemLists(n - 1), i \in MultiItems}

MultiRanges ==
    {<<"bytes", "=">> \o l : l \in UNION {ItemLists(n) : n \in 2..MaxRanges}}

RangeValues == ClosedRanges \cup OddRanges \cup MultiRanges

\* the values of a request's Connection header
ConnectionValues == {<<"close">>, <<"Keep-Alive", ",", " Range">>}

BodyLengths ==
    {0, URLFETCH_REQ_MAXBYTES - 1, URLFETCH_REQ_MAXBYTES, URLFETCH_REQ_MAXBYTES + 1}

\* the request headers: Host always, Range and Connection when sent; a method
\* without Range policy gets one Range value, alone or named by Connection
RequestHeaders(m) ==
    LET base == Put(EmptyHeaders, "Host", OwnHost)
        ranged == {Put(base, "Range", r) : r \in RangeValues}
        one == Put(base, "Range", <<"bytes", "=", "0", "-", "1">>)
    IN  IF m \in RANGE_METHODS
        THEN {base} \cup ranged
               \cup {Put(h, "Connection", c) : h \in {base} \cup ranged, c \in ConnectionValues}
        ELSE {base, one, Put(one, "Connection", <<"Keep-Alive", ",", " Range">>)}

OriginStatuses == {200, 206, 302, 404, 500}

OriginHeaders ==
    { EmptyHeaders,
      \* a Content-Range of the form bytes S-E/T and an absolute Location
      [k \in {"Server", "Content-Range", "Location"} |->
          CASE k = "Server" -> <<"gws">>
            [] k = "Content-Range" -> <<"bytes ", "0", "-", "1", "/", "2">>
            [] OTHER -> <<"http", "://", "y", "/">>],
      \* hop-by-hop headers, a Content-Range without total, a relative Location
      [k \in {"Connection", "X-Foo", "Keep-Alive", "Content-Range", "Location"} |->
          CASE k = "Connection" -> <<"X-Foo">>
            [] k = "X-Foo" -> <<"bar">>
            [] k = "Keep-Alive" -> <<"timeout=5">>
            [] k = "Content-Range" -> <<"bytes ", "0", "-", "1">>
            [] OTHER -> <<"/", "z">>],
      \* an origin that sends headers under the proxy's own annotation names,
      \* and a relative Location without a leading slash
      [k \in {"server", "location", "x-laeproxy-result", "x-laeproxy-version",
              "x-laeproxy-upstream-server", "x-laeproxy-upstream-status-code",
              "x-laeproxy-upstream-content-range", "x-laeproxy-truncated"} |->
          CASE k = "server" -> <<"Apache">>
            [] k = "location" -> <<"z">>
            [] OTHER -> <<"spoofed">>] }

\* sent keeps the headers as the origin sent them: fetched.headers is the
\* mapping line 228 rewrites in place
FetchResults ==
    {[status_code |-> st, headers |-> h, sent |-> h,
      content |-> <<"origin body">>, content_was_truncated |-> t] :
        st \in OriginStatuses, h \in OriginHeaders, t \in BOOLEAN}

\* what fetch() raises: the three errors the handler names, and any other Exception
\* "DownloadError" stands for the one urlfetch raises for a missed deadline;
\* urlfetch raises the same class when the origin could not be reached
FetchErrors ==
    {"InvalidURLError", "DownloadError", "DownloadError, not a timeout",
     "OverQuotaError", "Exception"}

(***************************************************************************)
(* The state of one request.                                               *)
(***************************************************************************)
VARIABLES
    method,         \* the method the handler was made for (make_handler's closure)
    req,            \* self.request as received: [path_qs, host, body_len, received]
    reqheaders,     \* req.headers, from which the hop-by-hop headers are popped
    res,            \* self.response: [status, headers, out]
    pc,             \* where the request is in wrapper/handler
    url,            \* handler locals
    scheme,
    host,
    payload,        \* [none, len]: None for a method without payload
    range_start,
    range_end,
    ignoreheaders,  \* the strip set last computed
    fetchlog,       \* the calls of fetch() so far, with their arguments
    fetched,        \* what fetch() returned
    raised,         \* the error fetch() raised, "none" when it raised none
    exc,            \* the exception that left the handler, "none" when none did
    log,            \* what the handler logged about the response it shaped
    final,          \* the response the client receives, once pc = "done"
    \* locals of the older handler (src/proxy.py, lines 186-193)
    urange,                 \* [none, v]: the Range header read at line 186
    urange_kept,            \* None counts as False: the handler only tests its truth
    urange_openended,
    urange_start,
    urange_end,             \* [none, v], inclusive
    urange_nbytesrequested  \* [none, v]

oldvars == <<urange, urange_kept, urange_openended, urange_start, urange_end,
             urange_nbytesrequested>>

vars == <<method, req, reqheaders, res, pc, url, scheme, host, payload,
          range_start, range_end, ignoreheaders, fetchlog, fetched, raised, exc, log,
          final, oldvars>>

\* None, for a local that holds a text or a number
None == [none |-> TRUE, v |-> 0]

NoText == [none |-> TRUE, v |-> <<>>]

\* proxy.py, lines 186-193: the locals before the Range header is looked at
RangeLocalsUnset ==
    /\ urange = NoText
    /\ urange_kept = FALSE
    /\ urange_openended = FALSE
    /\ urange_start = 0
    /\ urange_end = None
    /\ urange_nbytesrequested = None

NoResponse == [status |-> 0, headers |-> EmptyHeaders, body |-> <<>>]

NoFetched ==
    [status_code |-> 0, headers |-> EmptyHeaders, sent |-> EmptyHeaders,
     content |-> <<>>, content_was_truncated |-> FALSE]

Init ==
    /\ method \in METHODS
    /\ reqheaders \in RequestHeaders(method)
    \* the body of a method without payload is never read (line 134)
    /\ req \in [path_qs : Paths, host : {OwnHost},
                body_len : IF method \in PAYLOAD_METHODS THEN BodyLengths ELSE {0},
                received : {reqheaders}]
    /\ res = [status |-> 200, headers |-> EmptyHeaders, out |-> <<>>]
    /\ pc = "extract_url"
    /\ url = <<>>
    /\ scheme = <<>>
    /\ host = <<>>
    /\ payload = [none |-> TRUE, len |-> 0]
    /\ range_start = 0
    /\ range_end = 0
    /\ ignoreheaders = {}
    /\ fetchlog = <<>>
    /\ fetched = NoFetched
    /\ raised = "none"
    /\ exc = "none"
    /\ log = <<>>
    /\ final = NoResponse
    /\ RangeLocalsUnset

\* variant: the headers set so far are cleared with the body
error_ClearsHeaders(r, code) ==
    [r EXCEPT !.status = code, !.out = <<>>, !.headers = EmptyHeaders]

\* webapp's RequestHandler.error(code): the status is set and the body cleared
error(r, code) == [r EXCEPT !.status = code, !.out = <<>>]

\* variant: the assignment leaves no other header
SetHeader_Replace(r, name, value) == [r EXCEPT !.headers = [k \in {name} |-> value]]

\* resheaders[name] = value
SetHeader(r, name, value) == [r EXCEPT !.headers = Put(r.headers, name, value)]

(***************************************************************************)
(* LaeproxyHandler._extract_url                                            *)
(***************************************************************************)
\* variant: the hosts are compared as written
IsRecursive_CaseSensitive(reqhost, h) == reqhost = h

\* whether the decoded host is the proxy's own authority
IsRecursive(reqhost, h) == Lower(reqhost) = Lower(h)

\* the tuple _extract_url returns, or (ok = FALSE) the result string it sets
\* before returning self.error(404), which is None
extract_url(r) ==
    LET path == LStrip(r.path_qs, "/")
        first == Split1(path, "/")
        parts == Split1(first[2], "/")
        rest == IF Len(parts) = 2 THEN parts[2] ELSE <<>>
        h == unquote(parts[1])
        failed(result) ==
            [ok |-> FALSE, result |-> result, url |-> <<>>, scheme |-> <<>>, host |-> <<>>]
    IN  IF Len(first) # 2 THEN failed(<<"Invalid url">>)
        ELSE IF h = <<>> THEN failed(<<"Missing host">>)
        ELSE IF IsRecursive(r.host, h) THEN failed(IGNORED_RECURSIVE)
        ELSE [ok |-> TRUE, result |-> <<>>,
              url |-> first[1] \o <<"://">> \o h \o <<"/">> \o rest,
              scheme |-> first[1], host |-> h]

\* handler, line 131: url, scheme, host = self._extract_url(req).  When
\* _extract_url returned None the unpacking raises TypeError, which no except
\* clause of handler or wrapper catches.
ExtractUrl ==
    /\ pc = "extract_url"
    /\ \E x \in {extract_url(req)} :
           IF x.ok
           THEN /\ url' = x.url
                /\ scheme' = x.scheme
                /\ host' = x.host
                /\ pc' = "check_payload"
                /\ UNCHANGED <<res, exc>>
           ELSE /\ res' = error(SetHeader(res, H_LAEPROXY_RESULT, x.result), 404)
                /\ exc' = "TypeError"
                /\ pc' = "finally"
                /\ UNCHANGED <<url, scheme, host>>
    /\ UNCHANGED <<oldvars, log, method, req, reqheaders, payload, range_start, range_end,
                   ignoreheaders, fetchlog, fetched, final, raised>>

(***************************************************************************)
(* handler: payload check, lines 133-138                                   *)
(***************************************************************************)
\* variant: the limit itself is let through
PayloadTooLarge_Strict(payloadlen) == payloadlen > URLFETCH_REQ_MAXBYTES

PayloadTooLarge(payloadlen) == payloadlen >= URLFETCH_REQ_MAXBYTES

CheckPayload ==
    /\ pc = "check_payload"
    /\ LET p == IF method \in PAYLOAD_METHODS
                THEN [none |-> FALSE, len |-> req.body_len]
                ELSE [none |-> TRUE, len |-> 0]
           \* len(payload) if payload else 0
           payloadlen == IF p.none THEN 0 ELSE p.len
       IN  /\ payload' = p
           /\ IF PayloadTooLarge(payloadlen)
              THEN /\ res' = error(SetHeader(res, H_LAEPROXY_RESULT, REQ_TOO_LARGE), 400)
                   /\ pc' = "finally"
              ELSE /\ pc' = "strip_headers"
                   /\ UNCHANGED res
    /\ UNCHANGED <<oldvars, log, method, req, reqheaders, url, scheme, host, range_start, range_end,
                   ignoreheaders, fetchlog, fetched, exc, final, raised>>

(***************************************************************************)
(* handler: hop-by-hop stripping of the request, lines 140-150             *)
(***************************************************************************)
\* variant: the blanks around a listed name are kept
PieceName_Unstripped(piece) == IF piece = <<>> THEN "" ELSE piece[1]

\* the name one piece of a split Connection value stands for, "" when blank
PieceName(piece) == IF piece = <<>> THEN "" ELSE StripAtom(piece[1])

\* set(i.strip() for i in headers.get('connection', '').lower().split(',') if i.strip())
ConnectionNames(headers) ==
    LET pieces == SplitAll(Lower(Get(headers, "connection", <<>>)), ",")
    IN  {PieceName(pieces[i]) : i \in 1..Len(pieces)} \ {""}

\* variant: the fixed names are stripped only when Connection lists none
RequestIgnore_Either(headers) ==
    IF ConnectionNames(headers) # {}
    THEN ConnectionNames(headers) \cup {"connection"}
    ELSE HOPBYHOP \cup {"host"}

RequestIgnore(headers) == ConnectionNames(headers) \cup HOPBYHOP \cup {"host"}

\* the headers left after reqheaders.pop(i) for every i of the strip set
Strip(headers, ignore) ==
    [k \in {x \in DOMAIN headers : LowerAtom(x) \notin ignore} |-> headers[k]]

StripRequestHeaders ==
    /\ pc = "strip_headers"
    /\ ignoreheaders' = RequestIgnore(reqheaders)
    /\ reqheaders' = Strip(reqheaders, RequestIgnore(reqheaders))
    /\ pc' = IF method \in RANGE_METHODS THEN "check_range" ELSE "fetch"
    /\ UNCHANGED <<oldvars, log, method, req, res, url, scheme, host, payload, range_start, range_end,
                   fetchlog, fetched, exc, final, raised>>

(***************************************************************************)
(* handler: Range policy, lines 152-177                                    *)
(***************************************************************************)
\* variant: the end is converted twice
InclusiveEnd_Twice(end) == end - 2

\* variant: the end is not converted
InclusiveEnd_Unconverted(end) == end

\* range_end -= 1: webob's exclusive end made inclusive
InclusiveEnd(end) == end - 1

\* variant: the limit is one byte too generous
RangeTooLarge_LimitPlusOne(nbytes_requested) == nbytes_requested > RANGE_REQ_SIZE + 1

RangeTooLarge(nbytes_requested) == nbytes_requested > RANGE_REQ_SIZE

RangeResult(nbytes_requested) ==
    <<"Range specifies ", ToString(nbytes_requested), " bytes, limit is ",
      ToString(RANGE_REQ_SIZE)>>

\* variant: the result string is set but the handler does not return
Refuse_FallsThrough(code, result) ==
    [ok |-> TRUE, status |-> code, result |-> result, range_start |-> 0, range_end |-> 0]

\* a refusal: the status of self.error and the result string
Refuse(code, result) ==
    [ok |-> FALSE, status |-> code, result |-> result, range_start |-> 0, range_end |-> 0]

\* variant: the check for an open end (range_end is None) is left out
SingleRangePolicy_NoOpenCheck(first) ==
    LET rstart == first.begin
        rend == InclusiveEnd(first.end)
        nbytes_requested == rend - rstart + 1
    IN  IF ~(0 <= rstart /\ rstart <= rend)
        THEN Refuse(416, <<"Range must satisfy 0 <= range_start <= range_end">>)
        ELSE IF RangeTooLarge(nbytes_requested)
        THEN Refuse(400, RangeResult(nbytes_requested))
        ELSE [ok |-> TRUE, status |-> 0, result |-> <<>>,
              range_start |-> rstart, range_end |-> rend]

\* lines 162-177: the checks on the one range (range_start, range_end) = ranges[0]
SingleRangePolicy(first) ==
    LET rstart == first.begin
        rend == InclusiveEnd(first.end)
        nbytes_requested == rend - rstart + 1
    IN  IF first.open
        THEN Refuse(400, <<"Range must be of the form bytes=x-y">>)
        ELSE IF ~(0 <= rstart /\ rstart <= rend)
        THEN Refuse(416, <<"Range must satisfy 0 <= range_start <= range_end">>)
        ELSE IF RangeTooLarge(nbytes_requested)
        THEN Refuse(400, RangeResult(nbytes_requested))
        ELSE [ok |-> TRUE, status |-> 0, result |-> <<>>,
              range_start |-> rstart, range_end |-> rend]

\* variant: the number of ranges is looked at before the header's validity
RangePolicy_CountFirst(parsed) ==
    IF Len(parsed.ranges) # 1
    THEN Refuse(400, <<"Multiple ranges unsupported">>)
    ELSE SingleRangePolicy(parsed.ranges[1])

\* lines 153-177: the verdict on req.range, ok with the inclusive range or a refusal
RangePolicy(parsed) ==
    IF ~parsed.ok
    THEN Refuse(400, <<"Missing or invalid range header">>)
    ELSE IF Len(parsed.ranges) # 1
    THEN Refuse(400, <<"Multiple ranges unsupported">>)
    ELSE SingleRangePolicy(parsed.ranges[1])

CheckRange ==
    /\ pc = "check_range"
    /\ \E v \in {RangePolicy(ReqRange(reqheaders))} :
           IF v.ok
           THEN /\ range_start' = v.range_start
                /\ range_end' = v.range_end
                /\ pc' = "fetch"
                /\ UNCHANGED res
           ELSE /\ res' = error(SetHeader(res, H_LAEPROXY_RESULT, v.result), v.status)
                /\ pc' = "finally"
                /\ UNCHANGED <<range_start, range_end>>
    /\ UNCHANGED <<oldvars, log, method, req, reqheaders, url, scheme, host, payload, ignoreheaders,
                   fetchlog, fetched, exc, final, raised>>

(***************************************************************************)
(* handler: the fetch and its errors, lines 179-206                        *)
(***************************************************************************)
\* fetch(url, payload=, method=, headers=reqheaders, allow_truncated=True,
\*       follow_redirects=False, deadline=URLFETCH_REQ_MAXSECS, validate_certificate=True)
FetchCall ==
    [url |-> url, payload |-> payload, method |-> method, headers |-> reqheaders,
     allow_truncated |-> TRUE, follow_redirects |-> FALSE,
     deadline |-> URLFETCH_REQ_MAXSECS, validate_certificate |-> TRUE]

Fetch ==
    /\ pc = "fetch"
    /\ fetchlog' = Append(fetchlog, FetchCall)
    /\ pc' = "fetching"
    /\ UNCHANGED <<oldvars, log, method, req, reqheaders, res, url, scheme, host, payload, range_start,
                   range_end, ignoreheaders, fetched, exc, final, raised>>

\* fetch() returns; line 189 stamps the result string
FetchReturns ==
    /\ pc = "fetching"
    /\ \E f \in FetchResults :
          /\ fetched' = f
          /\ res' = SetHeader(res, H_LAEPROXY_RESULT, RETRIEVED_FROM_NET)
    /\ pc' = "shape"
    /\ UNCHANGED <<oldvars, log, method, req, reqheaders, url, scheme, host, payload, range_start,
                   range_end, ignoreheaders, fetchlog, exc, final, raised>>

\* the class an except clause matches the raised error by: every download
\* failure is a DownloadError, whatever made the download fail
ErrorClass(e) == IF e = "DownloadError, not a timeout" THEN "DownloadError" ELSE e

\* variant: the statuses of DownloadError and OverQuotaError are exchanged
FetchErrorStatus_Swapped(e) ==
    CASE ErrorClass(e) = "InvalidURLError" -> 404
      [] ErrorClass(e) = "DownloadError" -> 503
      [] ErrorClass(e) = "OverQuotaError" -> 504
      [] OTHER -> 500

\* the except clauses, lines 190-206: the status and result string for what fetch raised
FetchErrorStatus(e) ==
    CASE ErrorClass(e) = "InvalidURLError" -> 404
      [] ErrorClass(e) = "DownloadError" -> 504
      [] ErrorClass(e) = "OverQuotaError" -> 503
      [] OTHER -> 500

FetchErrorResult(e) ==
    CASE ErrorClass(e) = "InvalidURLError" -> <<"Invalid url">>
      [] ErrorClass(e) = "DownloadError" -> MISSED_DEADLINE_URLFETCH
      [] ErrorClass(e) = "OverQuotaError" -> EXCEEDED_URLFETCH_QUOTA
      [] OTHER -> UNEXPECTED_ERROR

\* variant: a failed download is fetched again, once
FetchRaises_Retried ==
    /\ pc = "fetching"
    /\ \E e \in FetchErrors :
          /\ raised' = e
          /\ res' = error(SetHeader(res, H_LAEPROXY_RESULT, FetchErrorResult(e)),
                          FetchErrorStatus(e))
          /\ pc' = IF ErrorClass(e) = "DownloadError" /\ Len(fetchlog) < 2
                   THEN "fetch" ELSE "finally"
    /\ UNCHANGED <<oldvars, log, method, req, reqheaders, url, scheme, host, payload, range_start,
                   range_end, ignoreheaders, fetchlog, fetched, exc, final>>

\* fetch() raises: the except clause that matches answers
FetchRaises ==
    /\ pc = "fetching"
    /\ \E e \in FetchErrors :
          /\ raised' = e
          /\ res' = error(SetHeader(res, H_LAEPROXY_RESULT, FetchErrorResult(e)),
                          FetchErrorStatus(e))
    /\ pc' = "finally"
    /\ UNCHANGED <<oldvars, log, method, req, reqheaders, url, scheme, host, payload, range_start,
                   range_end, ignoreheaders, fetchlog, fetched, exc, final>>

(***************************************************************************)
(* handler: shaping the response, lines 208-278, and _send_response        *)
(***************************************************************************)
\* variant: the names the origin's Connection header lists are not stripped
ResponseIgnore_HopByHopOnly(fheaders) == HOPBYHOP

\* the strip set of the origin's headers, lines 218-220
ResponseIgnore(fheaders) == ConnectionNames(fheaders) \cup HOPBYHOP

\* variant: the Location is left as the origin sent it
FixLocation_Verbatim(fheaders) == fheaders

\* lines 222-228: a relative Location is made absolute
FixLocation(fheaders) ==
    LET loc == Get(fheaders, "location", <<>>)
        path == IF StartsWith(loc, "/") THEN loc ELSE <<"/">> \o loc
    IN  IF loc # <<>> /\ ~StartsWith(loc, "http")
        THEN Put(fheaders, "location", scheme \o <<"://">> \o host \o path)
        ELSE fheaders

\* variant: a 200 is answered as a partial response
set_status_PartialFor200(r, status) ==
    [r EXCEPT !.status = IF status = 200 THEN 206 ELSE status]

\* res.set_status(status), line 209
set_status(r, status) == [r EXCEPT !.status = status]

\* variant: the Content-Range of a 206 is recorded whatever the method
ReachesContentRange_AnyMethod(f) == ~f.content_was_truncated /\ f.status_code = 206

\* whether the handler gets to line 254: not returned at 237 (truncated) nor at
\* 241 (not a range method), and status == 206
ReachesContentRange(f) ==
    ~f.content_was_truncated /\ method \in RANGE_METHODS /\ f.status_code = 206

\* the annotations set before _send_response is called: status and upstream
\* headers (208-214), the truncation flag (233-236), the upstream Content-Range
\* of a 206 answer to a range method (252-254)
Annotate(r, f) ==
    LET r1 == set_status(r, f.status_code)
        r2 == SetHeader(r1, H_UPSTREAM_STATUS_CODE, <<ToString(f.status_code)>>)
        r3 == SetHeader(r2, H_UPSTREAM_SERVER, Get(f.headers, "server", <<>>))
    IN  IF f.content_was_truncated
        THEN SetHeader(r3, H_TRUNCATED, <<"true">>)
        ELSE IF ReachesContentRange(f)
        THEN SetHeader(r3, H_UPSTREAM_CONTENT_RANGE, Get(f.headers, "content-range", <<>>))
        ELSE r3

\* lines 256-260: the Content-Range read as 'bytes S-E/T'; any exception of the
\* try block (the assert, an unpacking, an int()) gives ok = FALSE
ParseContentRange(crange) ==
    LET unparsed == [ok |-> FALSE, start |-> 0, end |-> 0, total |-> 0]
        \* crange[6:].split('/', 1)
        halves == Split1(Tail(crange), "/")
        \* sent.split('-', 1)
        bounds == Split1(halves[1], "-")
    IN  IF ~StartsWith(crange, "bytes ") THEN unparsed
        ELSE IF Len(halves) # 2 THEN unparsed
        ELSE IF Len(bounds) # 2 THEN unparsed
        ELSE IF ~(IntOk(bounds[1]) /\ IntOk(bounds[2]) /\ IntOk(halves[2])) THEN unparsed
        ELSE [ok |-> TRUE, start |-> IntOf(bounds[1]), end |-> IntOf(bounds[2]),
              total |-> IntOf(halves[2])]

\* variant: the 206 must end before the requested end
Fulfils_EndBelow(start, end, rstart, rend) == start = rstart /\ end < rend

\* line 270: start == range_start and end <= range_end
Fulfils(start, end, rstart, rend) == start = rstart /\ end <= rend

\* the message the handler logs on the branch that leads to _send_response
\* (lines 235, 240, 249, 262, 271, 273, 277)
ShapeMessage(f) ==
    LET parsed == ParseContentRange(Get(f.headers, "content-range", <<>>))
    IN  IF f.content_was_truncated
        THEN "urlfetch returned truncated response, returning as-is"
        ELSE IF method \notin RANGE_METHODS
        THEN "Non-range method, returning response as-is"
        ELSE IF f.status_code = 200
        THEN "Destination server does not support range requests, returning response as-is"
        ELSE IF f.status_code = 206
        THEN IF ~parsed.ok
             THEN "Error parsing upstream Content-Range, returning 206 response as-is"
             ELSE IF Fulfils(parsed.start, parsed.end, range_start, range_end)
             THEN "Upstream 206 response fulfills upstream range request, returning as-is"
             ELSE "Upstream Content-Range does not match range requested upstream"
        ELSE "Non-200 or 206 response to range request, returning response as-is"

Shape ==
    /\ pc = "shape"
    /\ res' = Annotate(res, fetched)
    /\ ignoreheaders' = ResponseIgnore(fetched.headers)
    /\ fetched' = [fetched EXCEPT !.headers = FixLocation(fetched.headers)]
    /\ log' = Append(log, ShapeMessage(fetched))
    /\ pc' = "send_response"
    /\ UNCHANGED <<oldvars, method, req, reqheaders, url, scheme, host, payload,
                   range_start, range_end, fetchlog, exc, final, raised>>

\* variant: the headers copied take the place of those already set
copy_headers_Replace(from_, to, ignore) ==
    [k \in {x \in DOMAIN from_ : LowerAtom(x) \notin ignore} |-> from_[k]]

\* copy_headers(from_, to, ignore): to[k] = v for every header not ignored
copy_headers(from_, to, ignore) ==
    LET copied == {k \in DOMAIN from_ : LowerAtom(k) \notin ignore}
        kept == {x \in DOMAIN to :
                    \A k \in copied : LowerAtom(k) # LowerAtom(x)}
    IN  [k \in kept \cup copied |-> IF k \in copied THEN from_[k] ELSE to[k]]

\* _send_response, line 112: the origin's headers are copied
CopyHeaders ==
    /\ pc = "send_response"
    /\ res' = [res EXCEPT
                 !.headers = copy_headers(fetched.headers, res.headers, ignoreheaders)]
    /\ pc' = "write_content"
    /\ UNCHANGED <<oldvars, log, method, req, reqheaders, url, scheme, host, payload, range_start,
                   range_end, ignoreheaders, fetchlog, fetched, exc, final, raised>>

\* _send_response, line 116: self.response.out.write(content)
WriteContent ==
    /\ pc = "write_content"
    /\ res' = [res EXCEPT !.out = res.out \o fetched.content]
    /\ pc' = "finally"
    /\ UNCHANGED <<oldvars, log, method, req, reqheaders, url, scheme, host, payload, range_start,
                   range_end, ignoreheaders, fetchlog, fetched, exc, final, raised>>

(***************************************************************************)
(* catch_deadline_exceeded: the wrapper around handler, lines 283-294      *)
(***************************************************************************)
\* variant: the deadline is also caught after handler has returned
Running_IncludesFinally ==
    /\ pc \in {"extract_url", "check_payload", "strip_headers", "check_range", "fetch",
               "fetching", "shape", "send_response", "write_content", "finally"}
    /\ exc = "none"

\* where handler is running, so that DeadlineExceededError can be raised in it
Running ==
    pc \in {"extract_url", "check_payload", "strip_headers", "check_range", "fetch",
            "fetching", "shape", "send_response", "write_content"}

\* variant: the result string is replaced instead of extended
DeadlineResult_Replaced(resheaders) == MISSED_DEADLINE_GAE

\* line 289: resheaders.get(H_LAEPROXY_RESULT, '') + MISSED_DEADLINE_GAE
DeadlineResult(resheaders) ==
    Get(resheaders, H_LAEPROXY_RESULT, <<>>) \o MISSED_DEADLINE_GAE

\* except DeadlineExceededError: the result string is extended and the answer is 504
DeadlineExceeded ==
    /\ Running
    /\ res' = error(SetHeader(res, H_LAEPROXY_RESULT, DeadlineResult(res.headers)), 504)
    /\ exc' = "DeadlineExceededError"
    /\ pc' = "finally"
    /\ UNCHANGED <<oldvars, log, method, req, reqheaders, url, scheme, host, payload, range_start,
                   range_end, ignoreheaders, fetchlog, fetched, final, raised>>

\* finally: the version header is stamped; the wrapper returns, or the TypeError
\* of line 131 goes on to the framework
Finally ==
    /\ pc = "finally"
    /\ res' = SetHeader(res, H_LAEPROXY_VER, VERSION)
    /\ IF exc = "TypeError"
       THEN /\ pc' = "uncaught"
            /\ UNCHANGED final
       ELSE /\ pc' = "done"
            /\ final' = [status |-> res.status, headers |-> res'.headers, body |-> res.out]
    /\ UNCHANGED <<oldvars, log, method, req, reqheaders, url, scheme, host, payload, range_start,
                   range_end, ignoreheaders, fetchlog, fetched, exc, raised>>

(***************************************************************************)
(* webapp.WSGIApplication, lines 299-301: an exception that leaves the     *)
(* handler is answered by the framework with 500.  The webapp of the       *)
(* Python 2.5 runtime answers on the handler's response object, whose      *)
(* headers stay; webapp2 (Python 2.7 runtime) answers with a response of   *)
(* its own.  Either runtime can host the application.                      *)
(***************************************************************************)
InternalServerError ==
    /\ pc = "uncaught"
    /\ \E keeps_headers \in BOOLEAN :
          final' = [status |-> 500,
                    headers |-> IF keeps_headers THEN res.headers ELSE EmptyHeaders,
                    body |-> <<"500 Internal Server Error">>]
    /\ pc' = "done"
    /\ UNCHANGED <<oldvars, log, method, req, reqheaders, res, url, scheme, host, payload, range_start,
                   range_end, ignoreheaders, fetchlog, fetched, exc, raised>>

Next ==
    \/ ExtractUrl
    \/ CheckPayload
    \/ StripRequestHeaders
    \/ CheckRange
    \/ Fetch
    \/ FetchReturns
    \/ FetchRaises
    \/ Shape
    \/ CopyHeaders
    \/ WriteContent
    \/ DeadlineExceeded
    \/ Finally
    \/ InternalServerError

Spec == Init /\ [][Next]_vars

\* the steps of handler, wrapper and framework: straight-line code that runs on,
\* and a fetch() that returns or raises within its own deadline
Progress ==
    \/ ExtractUrl
    \/ CheckPayload
    \/ StripRequestHeaders
    \/ CheckRange
    \/ Fetch
    \/ FetchReturns
    \/ FetchRaises
    \/ Shape
    \/ CopyHeaders
    \/ WriteContent
    \/ Finally
    \/ InternalServerError

\* the requests followed to their end: each method class, a target that is
\* fetched, one without host and the proxy itself, a body below and at the limit,
\* no Range, a Range within the limit and one beyond it
LiveInit ==
    /\ Init
    /\ method \in {"get", "post"}
    /\ req.path_qs \in {<<"/", "http", "/", "x", "/", "a", "/", "%50", "?q">>,
                        <<"/", "https", "/">>,
                        <<"/", "http", "/", "%50">>}
    /\ req.body_len \in {0, URLFETCH_REQ_MAXBYTES}
    /\ ~Has(reqheaders, "Connection")
    /\ Has(reqheaders, "Range") =>
          Get(reqheaders, "Range", <<>>) \in
              {<<"bytes", "=", "0", "-", "1">>,
               <<"bytes", "=", "0", "-", ToString(RANGE_REQ_SIZE)>>}

\* the overall deadline may fire or not; everything else goes on
LiveSpec == LiveInit /\ [][Next]_vars /\ WF_vars(Progress)

(***************************************************************************)
(* The claims.  The predicates below describe a request by what the client *)
(* sent, independently of the handler's own decoding.                      *)
(***************************************************************************)
Done == pc = "done"

DeadlineFired == exc = "DeadlineExceededError"

\* the X-laeproxy-result value of a response
ResultOf(r) == Get(r.headers, H_LAEPROXY_RESULT, <<>>)

\* the host segment of /<scheme>/<host>[/<rest>], percent-decoded
PathHost(path) ==
    LET after == SubSeq(path, 4, Len(path))
        i == IndexOf(after, "/")
    IN  unquote(IF i = 0 THEN after ELSE SubSeq(after, 1, i - 1))

HostEmpty == PathHost(req.path_qs) = <<>>

SelfAddressed == ~HostEmpty /\ Lower(PathHost(req.path_qs)) = Lower(req.host)

UrlRejected == HostEmpty \/ SelfAddressed

\* the Range header as the client sent it
SentRange == Has(req.received, "Range")

SentRangeValue == Get(req.received, "Range", <<>>)

\* whether the Connection header the client sent names Range
ConnectionNamesRange ==
    LET c == Get(req.received, "Connection", <<>>)
    IN  \E i \in 1..Len(c) : StripAtom(LowerAtom(c[i])) = "range"

\* the Range header the Range policy gets to see: the one sent, unless the
\* request's own Connection header made it hop-by-hop
PolicySeesRange == SentRange /\ ~ConnectionNamesRange

\* bytes=X-Y
IsClosed(v) ==
    /\ Len(v) = 5
    /\ v[1] = "bytes" /\ v[2] = "=" /\ IsNumeral(v[3]) /\ v[4] = "-" /\ IsNumeral(v[5])

ClosedX(v) == NumeralValue(v[3])

ClosedY(v) == NumeralValue(v[5])

ClosedSize(v) == ClosedY(v) - ClosedX(v) + 1

\* bytes=X-
IsOpenEnded(v) ==
    Len(v) = 4 /\ v[1] = "bytes" /\ v[2] = "=" /\ IsNumeral(v[3]) /\ v[4] = "-"

\* bytes=-N
IsSuffix(v) ==
    Len(v) = 4 /\ v[1] = "bytes" /\ v[2] = "=" /\ v[3] = "-" /\ IsNumeral(v[4])

\* bytes=-X-Y: a single range with a negative start
IsNegativeStart(v) ==
    /\ Len(v) = 6
    /\ v[1] = "bytes" /\ v[2] = "=" /\ v[3] = "-" /\ IsNumeral(v[4])
    /\ v[5] = "-" /\ IsNumeral(v[6])

\* more than one item
IsMulti(v) == IndexOf(v, ",") # 0

IsReversed(v) == IsClosed(v) /\ ClosedX(v) > ClosedY(v)

\* a GET whose URL decodes and which the deadline let finish
GetAnswered == Done /\ method = "get" /\ ~UrlRejected /\ ~DeadlineFired

\* C1: every final response, on every exit path, carries X-laeproxy-version and
\* an X-laeproxy-result header.  (The statement of the claim; the URL rejection
\* path breaks it, see C7.)
C1_EveryResponseAnnotated ==
    Done => /\ Has(final.headers, H_LAEPROXY_VER)
            /\ Has(final.headers, H_LAEPROXY_RESULT)

\* C2: every fetch() made for a GET is passed a Range header that is one closed
\* range bytes=X-Y with 0 <= X <= Y and Y - X + 1 <= RANGE_REQ_SIZE.
C2_GetFetchCarriesClosedRange ==
    \A i \in 1..Len(fetchlog) :
        fetchlog[i].method = "get" =>
            LET h == fetchlog[i].headers
                v == Get(h, "Range", <<>>)
            IN  /\ Has(h, "Range")
                /\ IsClosed(v)
                /\ 0 <= ClosedX(v) /\ ClosedX(v) <= ClosedY(v)
                /\ ClosedSize(v) <= RANGE_REQ_SIZE

\* C2 witness: a GET that sent a Connection header is being fetched, with the
\* largest range allowed
C2_Witness ==
    /\ pc = "fetching" /\ method = "get" /\ Len(fetchlog) = 1
    /\ Has(req.received, "Connection")
    /\ ClosedSize(Get(fetchlog[1].headers, "Range", <<>>)) = RANGE_REQ_SIZE

\* the Range headers of test_unsatisfiable_ranges_rejected, by their form
C3_Unsatisfiable ==
    LET v == SentRangeValue
    IN  \/ ~SentRange
        \/ v = <<>>
        \/ ~(IsClosed(v) \/ IsOpenEnded(v) \/ IsSuffix(v) \/ IsMulti(v))
        \/ IsOpenEnded(v)
        \/ IsSuffix(v)
        \/ IsReversed(v)
        \/ IsMulti(v)
        \/ (IsClosed(v) /\ ClosedSize(v) = RANGE_REQ_SIZE + 1)

\* C3: a GET whose Range header is absent, empty, unparsable, open-ended, a
\* suffix, reversed, a multi-range or one byte too long is answered 400, is
\* never fetched, and its response has no X-laeproxy-upstream-status-code.
C3_UnsatisfiableRangeIs400 ==
    (GetAnswered /\ C3_Unsatisfiable) =>
        /\ final.status = 400
        /\ fetchlog = <<>>
        /\ ~Has(final.headers, H_UPSTREAM_STATUS_CODE)

\* C3 witness: bytes=2-1 was answered 400
C3_Witness ==
    /\ GetAnswered
    /\ SentRangeValue = <<"bytes", "=", "2", "-", "1">>
    /\ final.status = 400

\* a single range bytes=X-Y with X < 0 or X > Y
C4_BadOrder == SentRange /\ (IsReversed(SentRangeValue) \/ IsNegativeStart(SentRangeValue))

\* C4 as claimed: such a GET is refused with 416 and
\* 'Range must satisfy 0 <= range_start <= range_end'.
C4_BadOrderIs416 ==
    (GetAnswered /\ C4_BadOrder) =>
        /\ final.status = 416
        /\ ResultOf(final) = <<"Range must satisfy 0 <= range_start <= range_end">>

\* C4 as amended: such a GET is refused before forwarding with 400 and 'Missing
\* or invalid range header': req.range is None for it, so the 416 check is
\* never reached.
C4_BadOrderIsInvalid ==
    (GetAnswered /\ C4_BadOrder) =>
        /\ final.status = 400
        /\ ResultOf(final) = <<"Missing or invalid range header">>
        /\ fetchlog = <<>>

\* C4 witness: bytes=1-0 and bytes=-3-5 ended that way
C4_Witness ==
    /\ GetAnswered
    /\ SentRangeValue \in {<<"bytes", "=", "1", "-", "0">>,
                          <<"bytes", "=", "-", "3", "-", "5">>}
    /\ ResultOf(final) = <<"Missing or invalid range header">>

\* C5: each Range violation has its own result string: no Range header (for the
\* policy: none sent, or one the Connection header named) or one that does not
\* parse gives 'Missing or invalid range header'; a parsed header of several
\* ranges gives 'Multiple ranges unsupported'; a suffix or open-ended range
\* gives 'Range must be of the form bytes=x-y'.
C5_OwnResultPerViolation ==
    GetAnswered =>
        LET v == SentRangeValue
        IN  /\ (~PolicySeesRange \/ ~ParseRange(v).ok) =>
                   ResultOf(final) = <<"Missing or invalid range header">>
            /\ (PolicySeesRange /\ ParseRange(v).ok /\ IsMulti(v)) =>
                   ResultOf(final) = <<"Multiple ranges unsupported">>
            /\ (PolicySeesRange /\ (IsSuffix(v) \/ IsOpenEnded(v))) =>
                   ResultOf(final) = <<"Range must be of the form bytes=x-y">>

\* C5 witness: bytes=4-5,7-8 was refused as a multi-range
C5_Witness ==
    /\ GetAnswered
    /\ SentRangeValue = <<"bytes", "=", "4", "-", "5", ",", "7", "-", "8">>
    /\ ResultOf(final) = <<"Multiple ranges unsupported">>
    /\ final.status = 400

\* C6: the size limit is end-inclusive and exact: a closed range of exactly
\* RANGE_REQ_SIZE bytes that reaches the Range policy is fetched, with
\* range_start = X and range_end = Y; one of RANGE_REQ_SIZE + 1 bytes is
\* refused with 400 and 'Range specifies N bytes, limit is M', N = Y - X + 1.
C6_LimitIsInclusiveAndExact ==
    (GetAnswered /\ PolicySeesRange /\ IsClosed(SentRangeValue)) =>
        LET v == SentRangeValue
        IN  /\ ClosedSize(v) = RANGE_REQ_SIZE =>
                   /\ Len(fetchlog) = 1
                   /\ Get(fetchlog[1].headers, "Range", <<>>) = v
                   /\ range_start = ClosedX(v) /\ range_end = ClosedY(v)
            /\ ClosedSize(v) = RANGE_REQ_SIZE + 1 =>
                   /\ fetchlog = <<>>
                   /\ final.status = 400
                   /\ ResultOf(final) =
                        <<"Range specifies ", ToString(ClosedY(v) - ClosedX(v) + 1),
                          " bytes, limit is ", ToString(RANGE_REQ_SIZE)>>

\* C6 witness: bytes=1-RANGE_REQ_SIZE was fetched
C6_Witness ==
    /\ GetAnswered /\ PolicySeesRange
    /\ SentRangeValue = <<"bytes", "=", "1", "-", ToString(RANGE_REQ_SIZE)>>
    /\ Len(fetchlog) = 1

\* C7 as claimed: a request whose URL does not decode is answered 404, with
\* 'Missing host' for an empty host and 'Ignored recursive request' for the
\* proxy's own authority.
C7_UrlFailureIs404 ==
    (Done /\ UrlRejected /\ ~DeadlineFired) =>
        /\ final.status = 404
        /\ HostEmpty => ResultOf(final) = <<"Missing host">>
        /\ SelfAddressed => ResultOf(final) = IGNORED_RECURSIVE

\* C8: a request whose URL does not decode (empty host, or a decoded host equal
\* to the request's own authority whatever the case) is never fetched, and its
\* response carries neither upstream header.
C8_UrlFailureNeverForwarded ==
    UrlRejected =>
        /\ fetchlog = <<>>
        /\ Done => /\ ~Has(final.headers, H_UPSTREAM_SERVER)
                   /\ ~Has(final.headers, H_UPSTREAM_STATUS_CODE)

\* C8 witness: /http/p/... sent to the authority P was answered without a fetch
C8_Witness ==
    /\ Done /\ ~DeadlineFired
    /\ Len(req.path_qs) >= 4 /\ req.path_qs[4] = "p" /\ req.host = <<"P">>
    /\ SelfAddressed
    /\ fetchlog = <<>>

\* a PUT or POST whose URL decodes and which the deadline let finish
PayloadAnswered == Done /\ method \in {"put", "post"} /\ ~UrlRejected /\ ~DeadlineFired

\* C9: a PUT or POST body of URLFETCH_REQ_MAXBYTES bytes or more is refused with
\* 400 and 'Request size exceeds urlfetch limit' without a fetch; a body one
\* byte shorter passes the check and is fetched.
C9_PayloadLimit ==
    PayloadAnswered =>
        /\ req.body_len >= URLFETCH_REQ_MAXBYTES =>
               /\ final.status = 400
               /\ ResultOf(final) = REQ_TOO_LARGE
               /\ fetchlog = <<>>
        /\ req.body_len = URLFETCH_REQ_MAXBYTES - 1 =>
               /\ ResultOf(final) # REQ_TOO_LARGE
               /\ Len(fetchlog) = 1
               /\ fetchlog[1].payload = [none |-> FALSE, len |-> req.body_len]

\* C9 witness: a PUT of exactly the limit was refused
C9_Witness ==
    /\ PayloadAnswered /\ method = "put"
    /\ req.body_len = URLFETCH_REQ_MAXBYTES
    /\ final.status = 400

\* the response of a fetch error relays nothing of an origin
NothingRelayed ==
    /\ DOMAIN final.headers \subseteq {H_LAEPROXY_RESULT, H_LAEPROXY_VER}
    /\ final.body = <<>>

\* C10: a fetch that raised InvalidURLError is answered 404 'Invalid url', one
\* that timed out (DownloadError) 504 'Missed urlfetch deadline', one over quota
\* 503 'Exceeded urlfetch quota'; no upstream-* header is set and nothing of an
\* origin response is relayed.
C10_FetchErrorsClassified ==
    (Done /\ ~DeadlineFired /\ raised \in {"InvalidURLError", "DownloadError", "OverQuotaError"}) =>
        /\ raised = "InvalidURLError" =>
               final.status = 404 /\ ResultOf(final) = <<"Invalid url">>
        /\ raised = "DownloadError" =>
               final.status = 504 /\ ResultOf(final) = <<"Missed urlfetch deadline">>
        /\ raised = "OverQuotaError" =>
               final.status = 503 /\ ResultOf(final) = <<"Exceeded urlfetch quota">>
        /\ NothingRelayed

\* C10 witness: an exhausted quota was answered 503
C10_Witness ==
    /\ Done /\ raised = "OverQuotaError"
    /\ final.status = 503
    /\ Len(fetchlog) = 1

\* fetch() returned a result for the request
FetchReturned == fetched # NoFetched

\* the result strings a response can hold once fetch() returned: the one line
\* 189 stamps, or the origin's header of that name once the origin's headers
\* were copied over it (C20)
ResultsAfterFetch ==
    {<<"Retrieved from network ", "<utcnow>">>}
      \cup (IF Has(fetched.sent, "X-laeproxy-result")
            THEN {Get(fetched.sent, "X-laeproxy-result", <<>>)} ELSE {})

\* C11: when the overall deadline fires, before the fetch, while it is in flight
\* or after it returned, the final response has status 504, its X-laeproxy-result
\* is the result string set by then (none before the fetch returned, the one of
\* the relayed response after) followed by ' Missed GAE deadline', and it
\* carries X-laeproxy-version.
C11_DeadlineIs504 ==
    (Done /\ DeadlineFired) =>
        /\ final.status = 504
        /\ ResultOf(final) \in
             {prior \o <<" Missed GAE deadline">> :
                 prior \in IF FetchReturned THEN ResultsAfterFetch ELSE {<<>>}}
        /\ Get(final.headers, "X-laeproxy-version", <<>>) = <<"0.7.1">>

\* C11 witness: the deadline fired after a fetch had returned
C11_Witness ==
    /\ Done /\ DeadlineFired /\ FetchReturned
    /\ final.status = 504
    /\ Len(ResultOf(final)) = 3

\* the lower-cased names of a header mapping
NamesOf(h) == {LowerAtom(k) : k \in DOMAIN h}

\* the names a Connection value lists
ListedIn(c) == {StripAtom(LowerAtom(c[i])) : i \in 1..Len(c)} \ {","}

HopByHopNames ==
    {"connection", "keep-alive", "proxy-authenticate", "proxy-authorization",
     "te", "trailer", "transfer-encoding", "upgrade"}

\* C12: the headers passed to fetch() contain no hop-by-hop name, no name the
\* request's Connection header lists and no Host; the response to a fetched
\* request contains no hop-by-hop name and no name the origin's Connection
\* header lists; names are compared whatever their case.
C12_NoHopByHop ==
    /\ \A i \in 1..Len(fetchlog) :
          NamesOf(fetchlog[i].headers)
            \cap (HopByHopNames \cup {"host"}
                    \cup ListedIn(Get(req.received, "Connection", <<>>))) = {}
    /\ Done =>
          NamesOf(final.headers)
            \cap (HopByHopNames \cup ListedIn(Get(fetched.headers, "Connection", <<>>))) = {}

\* C12 witness: a HEAD whose Connection header named Range was fetched without
\* it, and the origin's X-Foo, named by the origin's Connection header, was held
\* back while its Location was relayed
C12_Witness ==
    /\ Done /\ ~DeadlineFired /\ method = "head"
    /\ SentRange /\ ConnectionNamesRange
    /\ Len(fetchlog) = 1 /\ ~Has(fetchlog[1].headers, "Range")
    /\ Has(fetched.headers, "X-Foo") /\ Has(fetched.headers, "Keep-Alive")
    /\ Has(final.headers, "Location") /\ ~Has(final.headers, "X-Foo")

\* C13: when fetch() returned and the deadline did not fire, the status sent is
\* the origin's and the body sent is the fetched content, whatever the method,
\* the status, the truncation and the Content-Range; a 200 answer to a ranged GET
\* stays 200 and whole.
C13_PassThrough ==
    (Done /\ FetchReturned /\ ~DeadlineFired) =>
        /\ final.status = fetched.status_code
        /\ final.body = fetched.content

\* C13 witness: a ranged GET answered 200 by the origin was relayed as 200
C13_Witness ==
    /\ Done /\ ~DeadlineFired /\ method = "get"
    /\ Len(fetchlog) = 1 /\ Has(fetchlog[1].headers, "Range")
    /\ fetched.status_code = 200
    /\ final.status = 200 /\ final.body = <<"origin body">>

\* a request the deadline let finish and for which fetch() returned
Relayed == Done /\ FetchReturned /\ ~DeadlineFired

\* C14 as claimed: the final response carries X-laeproxy-truncated, with value
\* 'true', if and only if fetch() returned a truncated result for the request
\* (read for the requests the deadline lets finish).  An origin header of that
\* name breaks it, see C20.
C14_TruncatedIffTruncatedFetch ==
    (Done /\ ~DeadlineFired) =>
        /\ Has(final.headers, "X-laeproxy-truncated")
             <=> (FetchReturned /\ fetched.content_was_truncated)
        /\ Has(final.headers, "X-laeproxy-truncated") =>
             Get(final.headers, "X-laeproxy-truncated", <<>>) = <<"true">>

\* C15 as claimed: after a completed fetch the final response carries the
\* decimal origin status as X-laeproxy-upstream-status-code and the origin's
\* Server value, or the empty value, as X-laeproxy-upstream-server (read for the
\* requests the deadline lets finish).  Origin headers of those names break it,
\* see C20.
C15_UpstreamHeadersOfOrigin ==
    Relayed =>
        /\ Get(final.headers, "X-laeproxy-upstream-status-code", <<"(absent)">>)
             = <<ToString(fetched.status_code)>>
        /\ Get(final.headers, "X-laeproxy-upstream-server", <<"(absent)">>)
             = Get(fetched.headers, "Server", <<>>)

\* a PUT or POST whose body is at the limit or over it
PayloadRejected == method \in {"put", "post"} /\ req.body_len >= URLFETCH_REQ_MAXBYTES

\* a GET without a Range header that is one closed range of an allowed size
RangeRejected ==
    /\ method = "get"
    /\ ~(/\ PolicySeesRange
         /\ IsClosed(SentRangeValue)
         /\ ClosedX(SentRangeValue) <= ClosedY(SentRangeValue)
         /\ ClosedSize(SentRangeValue) <= RANGE_REQ_SIZE)

LacksUpstreamHeaders ==
    /\ ~Has(final.headers, "X-laeproxy-upstream-server")
    /\ ~Has(final.headers, "X-laeproxy-upstream-status-code")

\* C16: a request whose URL, payload or Range is rejected is never fetched, and
\* the final response to a request that was never fetched (those, and one the
\* deadline ended before the fetch) carries neither X-laeproxy-upstream-server
\* nor X-laeproxy-upstream-status-code.
C16_UnfetchedLacksUpstream ==
    /\ (UrlRejected \/ PayloadRejected \/ RangeRejected) => fetchlog = <<>>
    /\ (Done /\ fetchlog = <<>>) => LacksUpstreamHeaders

\* C16 witness: the deadline ended a request that nothing rejected, before its fetch
C16_Witness ==
    /\ Done /\ DeadlineFired /\ fetchlog = <<>>
    /\ ~(UrlRejected \/ PayloadRejected \/ RangeRejected)
    /\ LacksUpstreamHeaders /\ final.status = 504

C18_RetrievedImpliesUpstream ==
    (Done /\ StartsWith(ResultOf(final), "Retrieved from network ")) =>
        /\ Has(final.headers, "X-laeproxy-upstream-server")
        /\ Has(final.headers, "X-laeproxy-upstream-status-code")

C20_AnnotationsWin ==
    Relayed =>
        /\ ResultOf(final) = <<"Retrieved from network ", "<utcnow>">>
        /\ Get(final.headers, "X-laeproxy-version", <<>>) = <<"0.7.1">>
        /\ Get(final.headers, "X-laeproxy-upstream-status-code", <<>>)
             = <<ToString(fetched.status_code)>>
        /\ Get(final.headers, "X-laeproxy-upstream-server", <<"(absent)">>)
             = Get(fetched.headers, "Server", <<>>)
        /\ fetched.content_was_truncated =>
             Get(final.headers, "X-laeproxy-truncated", <<>>) = <<"true">>
        /\ (method = "get" /\ fetched.status_code = 206 /\ ~fetched.content_was_truncated) =>
             Get(final.headers, "X-laeproxy-upstream-content-range", <<"(absent)">>)
               = Get(fetched.headers, "Content-Range", <<>>)

\* the host segment of /<scheme>/<host>[/<tail>] as written in the path
RawHost(path) ==
    LET after == SubSeq(path, 4, Len(path))
        i == IndexOf(after, "/")
    IN  IF i = 0 THEN after ELSE SubSeq(after, 1, i - 1)

\* the tail of the path: what follows the '/' after the host, empty when absent
RawTail(path) ==
    LET after == SubSeq(path, 4, Len(path))
        i == IndexOf(after, "/")
    IN  IF i = 0 THEN <<>> ELSE SubSeq(after, i + 1, Len(after))

\* one percent-decoding of the escapes that occur in the paths
DecodedOnce(h) ==
    [i \in 1..Len(h) |->
        CASE h[i] = "%50" -> "P"
          [] h[i] = "%2570" -> "%70"
          [] OTHER -> h[i]]

\* the origin's headers that are not hop-by-hop for its response
Forwardable(sent) ==
    {k \in DOMAIN sent :
        LowerAtom(k) \notin HopByHopNames \cup ListedIn(Get(sent, "Connection", <<>>))}

\* a Location made absolute against the scheme and host of the target
AbsoluteLocation(loc) ==
    <<req.path_qs[2], "://">> \o DecodedOnce(RawHost(req.path_qs))
      \o (IF loc[1] = "/" THEN loc ELSE <<"/">> \o loc)

\* C21 as claimed: fetch() is always called with follow_redirects = False, and
\* a 3xx answer reaches the client with the origin's status and the origin's
\* headers exactly as sent, Location included, hop-by-hop headers apart.
C21_RedirectVerbatim ==
    /\ \A i \in 1..Len(fetchlog) : fetchlog[i].follow_redirects = FALSE
    /\ (Relayed /\ fetched.status_code \in 300..399) =>
          /\ final.status = fetched.status_code
          /\ \A k \in Forwardable(fetched.sent) :
                Get(final.headers, k, <<"(absent)">>) = fetched.sent[k]

\* C21 as amended: fetch() is always called with follow_redirects = False, and
\* a 3xx answer reaches the client with the origin's status and the origin's
\* headers as sent, hop-by-hop headers apart, except that a Location that does
\* not begin with 'http' is made absolute (<scheme>://<host> of the target,
\* then the value, with a '/' put before it when it has none) and that
\* X-laeproxy-version is the proxy's.
C21_RedirectSurfaced ==
    /\ \A i \in 1..Len(fetchlog) : fetchlog[i].follow_redirects = FALSE
    /\ (Relayed /\ fetched.status_code \in 300..399) =>
          /\ final.status = fetched.status_code
          /\ \A k \in Forwardable(fetched.sent) :
                Get(final.headers, k, <<"(absent)">>) =
                   IF LowerAtom(k) = "x-laeproxy-version" THEN <<"0.7.1">>
                   ELSE IF /\ LowerAtom(k) = "location"
                           /\ fetched.sent[k] # <<>> /\ fetched.sent[k][1] # "http"
                        THEN AbsoluteLocation(fetched.sent[k])
                   ELSE fetched.sent[k]

\* C21 witness: a 302 with the Location /z was relayed with an absolute Location
C21_Witness ==
    /\ Relayed /\ fetched.status_code = 302
    /\ Get(fetched.sent, "Location", <<>>) = <<"/", "z">>
    /\ req.path_qs[2] = "https"
    /\ Get(final.headers, "Location", <<>>) = <<"https", "://", "x", "/", "z">>
    /\ final.status = 302

\* C22: fetch() is called at most once for a request, whatever it returns or
\* raises and whether or not the overall deadline fires.
C22_AtMostOneFetch == Len(fetchlog) <= 1

\* C22 witness: a request whose one fetch failed unexpectedly has been answered
C22_Witness ==
    /\ Done /\ raised = "Exception"
    /\ Len(fetchlog) = 1 /\ final.status = 500

\* the step on which the wrapper catches the overall deadline
DeadlineStep == exc = "none" /\ exc' = "DeadlineExceededError"

\* C23 as claimed: every header the response holds when the overall deadline
\* fires is in the final response with the same value, the result string alone
\* being extended by ' Missed GAE deadline', and the final response is a 504.
C23_DeadlineKeepsEveryHeader ==
    [][/\ DeadlineStep =>
            /\ \A k \in DOMAIN res.headers :
                  LowerAtom(k) # "x-laeproxy-result" =>
                      Get(res'.headers, k, <<"(absent)">>) = res.headers[k]
            /\ ResultOf(res') = ResultOf(res) \o <<" Missed GAE deadline">>
       /\ (DeadlineFired /\ pc' = "done") =>
            /\ final'.status = 504
            /\ \A k \in DOMAIN res.headers :
                  Get(final'.headers, k, <<"(absent)">>) = res.headers[k]]_vars

\* C23 as amended: the same, except for a header named X-laeproxy-version that
\* was copied from the origin before the deadline fired: the final response
\* carries the proxy's version under that name.
C23_DeadlineKeepsHeaders ==
    [][/\ DeadlineStep =>
            /\ \A k \in DOMAIN res.headers :
                  LowerAtom(k) # "x-laeproxy-result" =>
                      Get(res'.headers, k, <<"(absent)">>) = res.headers[k]
            /\ ResultOf(res') = ResultOf(res) \o <<" Missed GAE deadline">>
       /\ (DeadlineFired /\ pc' = "done") =>
            /\ final'.status = 504
            /\ \A k \in DOMAIN res.headers :
                  Get(final'.headers, k, <<"(absent)">>) =
                     IF LowerAtom(k) = "x-laeproxy-version" THEN <<"0.7.1">>
                     ELSE res.headers[k]]_vars

\* C23 witness: the deadline fired after the origin's headers were copied; the
\* final 504 holds the annotations and the origin's Server header
C23_Witness ==
    /\ Done /\ DeadlineFired /\ final.status = 504
    /\ Has(final.headers, "X-laeproxy-upstream-status-code")
    /\ Has(final.headers, "X-laeproxy-upstream-server")
    /\ Get(final.headers, "X-laeproxy-upstream-content-range", <<>>)
         = <<"bytes ", "0", "-", "1", "/", "2">>
    /\ Get(final.headers, "Server", <<>>) = <<"gws">>
    /\ ResultOf(final) = <<"Retrieved from network ", "<utcnow>", " Missed GAE deadline">>

\* the state of the deadline guard: RUNNING while handler runs, then the way
\* handler was left
GuardState ==
    IF pc \notin {"finally", "uncaught", "done"} THEN "RUNNING"
    ELSE IF exc = "DeadlineExceededError" THEN "DEADLINE_EXPIRED"
    ELSE IF exc = "none" /\ raised = "none" /\ FetchReturned THEN "DONE_OK"
    ELSE "DONE_ERROR"

\* C24: a request starts in RUNNING and, fetch() returning or raising unless the
\* overall deadline fires, ends answered in one of DONE_OK, DONE_ERROR and
\* DEADLINE_EXPIRED; the terminal state reached is never left, and once it is
\* reached no stage of the pipeline runs: only the version header, the position
\* and the response handed to the client change.
C24_ReachesOneTerminalState ==
    /\ GuardState = "RUNNING"
    /\ <>[](Done /\ GuardState \in {"DONE_OK", "DONE_ERROR", "DEADLINE_EXPIRED"})
    /\ [][GuardState # "RUNNING" =>
            /\ GuardState' = GuardState
            /\ res'.status = res.status /\ res'.out = res.out
            /\ UNCHANGED <<reqheaders, url, scheme, host, payload, range_start, range_end,
                           ignoreheaders, fetchlog, fetched, raised, log>>]_vars

\* C24 witness: a relayed response has been handed to the client in DONE_OK
C24_Witness ==
    /\ Done /\ GuardState = "DONE_OK"
    /\ final.status = fetched.status_code /\ final.body = <<"origin body">>

\* C25: a fetch failure that is neither an invalid URL, nor a timeout, nor an
\* exhausted quota is answered 500 'Unexpected error: <repr>', never 504
\* 'Missed urlfetch deadline'.
C25_OtherFailureIs500 ==
    (Done /\ ~DeadlineFired /\ raised \in {"DownloadError, not a timeout", "Exception"}) =>
        /\ final.status = 500
        /\ ResultOf(final) = UNEXPECTED_ERROR

\* a GET the origin answered 206, not truncated, relayed to the client
Relayed206 ==
    /\ Relayed /\ method = "get"
    /\ fetched.status_code = 206 /\ ~fetched.content_was_truncated

\* the Content-Range the origin sent, '' when it sent none
OriginContentRange == Get(fetched.sent, "content-range", <<>>)

\* C26: for a GET answered 206 and not truncated, the log says the upstream
\* response fulfils the request exactly when Content-Range parses as
\* 'bytes S-E/T' with S the requested start and E <= the requested inclusive
\* end, flags a mismatch when it parses otherwise, and reports the parse error
\* when it is missing or does not parse; in all three cases the client gets
\* status 206, the origin's body and an upstream-content-range header that does
\* not depend on the outcome of the check.
C26_FulfilmentOnlyLogged ==
    Relayed206 =>
        LET parsed == ParseContentRange(OriginContentRange)
            x == ClosedX(SentRangeValue)
            y == ClosedY(SentRangeValue)
        IN  /\ IsClosed(SentRangeValue)
            /\ log = << IF ~parsed.ok
                        THEN "Error parsing upstream Content-Range, returning 206 response as-is"
                        ELSE IF parsed.start = x /\ parsed.end <= y
                        THEN "Upstream 206 response fulfills upstream range request, returning as-is"
                        ELSE "Upstream Content-Range does not match range requested upstream" >>
            /\ final.status = 206
            /\ final.body = fetched.content
            /\ Get(final.headers, H_UPSTREAM_CONTENT_RANGE, <<"none">>) =
                  IF Has(fetched.sent, H_UPSTREAM_CONTENT_RANGE)
                  THEN Get(fetched.sent, H_UPSTREAM_CONTENT_RANGE, <<>>)
                  ELSE OriginContentRange

\* C26 witness: a 206 with 'bytes 0-1/2' relayed for bytes=0-1, logged as
\* fulfilling the request
C26_Witness ==
    /\ Relayed206
    /\ SentRangeValue = <<"bytes", "=", "0", "-", "1">>
    /\ OriginContentRange = <<"bytes ", "0", "-", "1", "/", "2">>
    /\ log = <<"Upstream 206 response fulfills upstream range request, returning as-is">>

\* the body has been written to the response (line 116)
BodyWritten == res.out # <<>>

RequestSanitized == pc \in {"check_range", "fetch", "fetching"} \/ fetchlog # <<>>

\* the origin's headers have just been sanitized into the response (line 112)
ResponseSanitized == pc = "write_content"

\* the response sanitizer: the strip set of lines 218-220 and copy_headers
SanitizeResponse(fheaders) == copy_headers(fheaders, EmptyHeaders, ResponseIgnore(fheaders))

\* C28: sanitizing a header set that was already sanitized removes nothing: the
\* request headers the handler stripped are those received less the strip set,
\* and stripping them again leaves them as they are; the origin headers copied
\* into the response are all in it, and sanitizing them again leaves them as they
\* are.
C28_SanitizationIdempotent ==
    /\ RequestSanitized =>
          /\ reqheaders = Strip(req.received, RequestIgnore(req.received))
          /\ Strip(reqheaders, RequestIgnore(reqheaders)) = reqheaders
    /\ ResponseSanitized =>
          LET t == SanitizeResponse(fetched.headers)
          IN  /\ \A k \in DOMAIN t : k \in DOMAIN res.headers /\ res.headers[k] = t[k]
              /\ SanitizeResponse(t) = t

\* C28 witness: a request whose Connection header listed a name was sanitized
\* and fetched, and the origin's headers, with a Connection header that lists
\* one of them, were sanitized into the response
C28_Witness ==
    /\ ResponseSanitized
    /\ ConnectionNames(req.received) # {} /\ reqheaders # req.received
    /\ ConnectionNames(fetched.sent) # {}
    /\ DOMAIN SanitizeResponse(fetched.headers) # DOMAIN fetched.headers

\* <scheme>://<host>/<tail> for the request's path, the host decoded once
ExpectedTarget ==
    <<req.path_qs[2], "://">> \o DecodedOnce(RawHost(req.path_qs))
      \o <<"/">> \o RawTail(req.path_qs)

\* C29: for a path /<scheme>/<host>[/<tail>] whose host, percent-decoded once, is
\* not empty and is not the proxy's own authority, the target the handler
\* reconstructs, and every target passed to fetch(), is <scheme>://<host>/<tail>
\* with the host decoded exactly once and the tail as it came, escapes, further
\* '/' and query string included; without a tail it is <scheme>://<host>/.
C29_UrlRoundTrip ==
    LET h == DecodedOnce(RawHost(req.path_qs))
    IN  (h # <<>> /\ Lower(h) # Lower(req.host)) =>
            /\ (pc # "extract_url" /\ ~DeadlineFired) =>
                  exc = "none" /\ url = ExpectedTarget
            /\ \A i \in 1..Len(fetchlog) : fetchlog[i].url = ExpectedTarget

\* C29 witness: /http/%2570/a/%50?q was fetched as http://%70/a/%50?q
C29_Witness ==
    /\ req.path_qs = <<"/", "http", "/", "%2570", "/", "a", "/", "%50", "?q">>
    /\ Len(fetchlog) = 1
    /\ fetchlog[1].url = <<"http", "://", "%70", "/", "a", "/", "%50", "?q">>

\* C30: the X-laeproxy-version value of the final response always equals the
\* proxy's own version string, whatever the origin sent under that name.
C30_VersionAlwaysProxys ==
    Done => Get(final.headers, H_LAEPROXY_VER, <<"none">>) = VERSION

\* what holds of the version header: a final response that has it has the
\* proxy's value, and every response the wrapper itself answers has it
VersionNeverOrigins ==
    Done =>
        /\ Has(final.headers, H_LAEPROXY_VER) =>
              Get(final.headers, H_LAEPROXY_VER, <<>>) = VERSION
        /\ exc # "TypeError" => Has(final.headers, H_LAEPROXY_VER)

\* C31: the request headers are sanitized before the Range policy reads them: a
\* GET whose Connection header names Range is never fetched, and is answered
\* 400 'Missing or invalid range header', also when the Range header it sent
\* was one closed range within RANGE_REQ_SIZE.
C31_NamedRangeIsStripped ==
    (method = "get" /\ ConnectionNamesRange) =>
        /\ fetchlog = <<>>
        /\ GetAnswered =>
              /\ final.status = 400
              /\ ResultOf(final) = <<"Missing or invalid range header">>
              /\ ~Has(reqheaders, "Range")

\* C31 witness: bytes=0-1 sent with 'Connection: Keep-Alive, Range' was
\* answered 400
C31_Witness ==
    /\ GetAnswered /\ ConnectionNamesRange
    /\ SentRangeValue = <<"bytes", "=", "0", "-", "1">>
    /\ final.status = 400
    /\ ResultOf(final) = <<"Missing or invalid range header">>

(***************************************************************************)
(* The older handler, src/proxy.py: one request travelling through its     *)
(* catch_deadline_exceeded(make_handler(method)).  It shares the request,  *)
(* the response and the fetch of the model above and has locals of its own *)
(* for the Range header (urange, urange_kept, ...).                        *)
(***************************************************************************)
\* proxy.py line 99: without the leading blank of constants.py
OldMissedDeadlineGae == <<"Missed GAE deadline">>

\* the Range headers sent to the older handler
OldRangeValues ==
    { <<>>, <<"garbage">>,
      <<"bytes", "=", "0", "-", "0">>, <<"bytes", "=", "0", "-", "1">>,
      <<"bytes", "=", "1", "-", "2">>, <<"bytes", "=", "2", "-", "5">>,
      <<"bytes", "=", "0", "-", ToString(RES_MAXBYTES - 1)>>,
      <<"bytes", "=", "0", "-", ToString(RES_MAXBYTES)>>,
      <<"bytes", "=", "-", "1">>, <<"bytes", "=", "-", "2">>,
      <<"bytes", "=", "-", ToString(RES_MAXBYTES + 1)>>,
      <<"bytes", "=", "0", "-">>, <<"bytes", "=", "1", "-">>,
      <<"bytes", "=", "4", "-", "5", ",", "7", "-", "8">> }

OldRequestHeaders(m) ==
    LET base == Put(EmptyHeaders, "Host", OwnHost)
        one == Put(base, "Range", <<"bytes", "=", "0", "-", "1">>)
    IN  IF m \in RANGE_METHODS
        THEN {base} \cup {Put(base, "Range", r) : r \in OldRangeValues}
               \cup {Put(one, "Connection", <<"Keep-Alive", ",", " Range">>)}
        ELSE {base}

\* a body of n bytes: its bytes are told apart by their offset
Body(n) == [i \in 1..n |-> ToString(i - 1)]

OldOriginHeaders ==
    { EmptyHeaders,
      \* the Content-Range of an entire entity
      [k \in {"Server", "Content-Range"} |->
          IF k = "Server" THEN <<"gws">> ELSE <<"bytes ", "0", "-", "1", "/", "2">>],
      \* hop-by-hop headers and the Content-Range of a part
      [k \in {"Connection", "X-Foo", "Content-Range"} |->
          CASE k = "Connection" -> <<"X-Foo">>
            [] k = "X-Foo" -> <<"bar">>
            [] OTHER -> <<"bytes ", "1", "-", "1", "/", "3">>] }

OldFetchResults ==
    {[status_code |-> st, headers |-> h, sent |-> h,
      content |-> Body(n), content_was_truncated |-> t] :
        st \in OriginStatuses, h \in OldOriginHeaders, n \in 0..MaxBodyLen, t \in BOOLEAN}

OldInit ==
    /\ method \in METHODS
    /\ reqheaders \in OldRequestHeaders(method)
    /\ req \in [path_qs : Paths, host : {OwnHost},
                body_len : IF method \in PAYLOAD_METHODS
                           THEN {0, URLFETCH_REQ_MAXBYTES} ELSE {0},
                received : {reqheaders}]
    /\ res = [status |-> 200, headers |-> EmptyHeaders, out |-> <<>>]
    /\ pc = "old_url"
    /\ url = <<>>
    /\ scheme = <<>>
    /\ host = <<>>
    /\ payload = [none |-> TRUE, len |-> 0]
    /\ range_start = 0
    /\ range_end = 0
    /\ ignoreheaders = {}
    /\ fetchlog = <<>>
    /\ fetched = NoFetched
    /\ raised = "none"
    /\ exc = "none"
    /\ log = <<>>
    /\ final = NoResponse
    /\ RangeLocalsUnset

\* proxy.py lines 147-166: the url is rebuilt in the handler itself; only the
\* recursive request is given a result string
OldExtractUrl ==
    /\ pc = "old_url"
    /\ \E x \in {extract_url(req)} :
          IF x.ok
          THEN /\ url' = x.url
               /\ scheme' = x.scheme
               /\ host' = x.host
               /\ pc' = "old_payload"
               /\ UNCHANGED res
          ELSE /\ res' = error(IF x.result = IGNORED_RECURSIVE
                               THEN SetHeader(res, EIGEN_HEADER_KEY, IGNORED_RECURSIVE)
                               ELSE res, 404)
               /\ pc' = "old_return"
               /\ UNCHANGED <<url, scheme, host>>
    /\ UNCHANGED <<oldvars, log, method, req, reqheaders, payload, range_start, range_end,
                   ignoreheaders, fetchlog, fetched, exc, final, raised>>

\* lines 168-173
OldCheckPayload ==
    /\ pc = "old_payload"
    /\ LET p == IF method \in PAYLOAD_METHODS
                THEN [none |-> FALSE, len |-> req.body_len]
                ELSE [none |-> TRUE, len |-> 0]
           payloadlen == IF p.none THEN 0 ELSE p.len
       IN  /\ payload' = p
           /\ IF PayloadTooLarge(payloadlen)
              THEN /\ res' = error(SetHeader(res, EIGEN_HEADER_KEY, REQ_TOO_LARGE), 503)
                   /\ pc' = "old_return"
              ELSE /\ pc' = "old_strip"
                   /\ UNCHANGED res
    /\ UNCHANGED <<oldvars, log, method, req, reqheaders, url, scheme, host, range_start,
                   range_end, ignoreheaders, fetchlog, fetched, exc, final, raised>>

\* lines 176-177: the strip set, without 'host'
OldRequestIgnore(headers) == HOPBYHOP \cup ConnectionNames(headers)

\* lines 175-183
OldStripRequestHeaders ==
    /\ pc = "old_strip"
    /\ ignoreheaders' = OldRequestIgnore(reqheaders)
    /\ reqheaders' = Strip(reqheaders, OldRequestIgnore(reqheaders))
    /\ pc' = IF method \in RANGE_METHODS THEN "old_range" ELSE "old_fetch"
    /\ UNCHANGED <<oldvars, log, method, req, res, url, scheme, host, payload, range_start,
                   range_end, fetchlog, fetched, exc, final, raised>>

\* 'bytes=%d-%d' % (start, end)
RangeStr(start, end) == <<"bytes", "=", ToString(start), "-", ToString(end)>>

\* variant: an open-ended range is capped but not remembered as open-ended
OpenEndedPlan_Forgotten(headers, start) ==
    [refused |-> FALSE, kept |-> FALSE, openended |-> FALSE,
     start |-> start, end |-> None, nbytes |-> None,
     headers |-> Put(headers, "Range", RangeStr(start, start + RES_MAXBYTES - 1))]

\* lines 204-214: bytes=x- is capped to RES_MAXBYTES bytes
OpenEndedPlan(headers, start) ==
    [refused |-> FALSE, kept |-> FALSE, openended |-> TRUE,
     start |-> start, end |-> None, nbytes |-> None,
     headers |-> Put(headers, "Range", RangeStr(start, start + RES_MAXBYTES - 1))]

\* lines 194-225: what a Range header that parses leads to.  r is the one
\* range of req.range.ranges: [begin, end, open], end exclusive.
SingleRangePlan(headers, r) ==
    LET closed == ~r.open
        \* lines 199-203
        end == IF closed THEN [none |-> FALSE, v |-> r.end - 1] ELSE None
        nbytes == IF closed THEN [none |-> FALSE, v |-> (r.end - 1) - r.begin + 1]
                  ELSE IF r.begin < 0 THEN [none |-> FALSE, v |-> 0 - r.begin]
                  ELSE None
    IN  IF ~closed /\ ~(r.begin < 0) THEN OpenEndedPlan(headers, r.begin)
        ELSE IF nbytes.v > RES_MAXBYTES
        THEN [refused |-> TRUE, kept |-> FALSE, openended |-> FALSE,
              start |-> r.begin, end |-> end, nbytes |-> nbytes, headers |-> headers]
        ELSE [refused |-> FALSE, kept |-> TRUE, openended |-> FALSE,
              start |-> r.begin, end |-> end, nbytes |-> nbytes, headers |-> headers]

\* lines 194-225: req.range parsed; several ranges are refused
ParsedRangePlan(headers, parsed) ==
    IF Len(parsed.ranges) = 1 THEN SingleRangePlan(headers, parsed.ranges[1])
    ELSE [refused |-> TRUE, kept |-> FALSE, openended |-> FALSE,
          start |-> 0, end |-> None, nbytes |-> None, headers |-> headers]

\* `if urange`: neither None nor the empty string
Truthy(t) == ~t.none /\ t.v # <<>>

\* lines 185-237
OldPlanRange ==
    /\ pc = "old_range"
    /\ LET read == IF Has(reqheaders, "range")
                   THEN [none |-> FALSE, v |-> Get(reqheaders, "range", <<>>)]
                   ELSE NoText
       IN  \E parsed \in {ReqRange(reqheaders)} :
           \E plan \in {IF parsed.ok THEN ParsedRangePlan(reqheaders, parsed)
                        ELSE [refused |-> FALSE, kept |-> FALSE, openended |-> FALSE,
                              start |-> 0, end |-> None, nbytes |-> None,
                              headers |-> reqheaders]} :
             /\ urange_start' = plan.start
             /\ urange_end' = plan.end
             /\ urange_nbytesrequested' = plan.nbytes
             /\ urange_openended' = plan.openended
             /\ IF plan.refused
                THEN \* lines 217, 225
                     /\ res' = error(res, 503)
                     /\ pc' = "old_return"
                     /\ urange' = read
                     /\ urange_kept' = FALSE
                     /\ UNCHANGED reqheaders
                ELSE IF ~ReqRange(plan.headers).ok
                THEN \* lines 227-237: the proxy sends a Range of its own
                     /\ urange' = IF Truthy(read) THEN NoText ELSE read
                     /\ reqheaders' = Put(plan.headers, "Range",
                                          RangeStr(0, RANGE_REQ_SIZE - 1))
                     /\ urange_kept' = FALSE
                     /\ pc' = "old_fetch"
                     /\ UNCHANGED res
                ELSE /\ urange' = read
                     /\ reqheaders' = plan.headers
                     /\ urange_kept' = plan.kept
                     /\ pc' = "old_fetch"
                     /\ UNCHANGED res
    /\ UNCHANGED <<log, method, req, url, scheme, host, payload, range_start, range_end,
                   ignoreheaders, fetchlog, fetched, exc, final, raised>>

\* lines 244-252
OldFetch ==
    /\ pc = "old_fetch"
    /\ fetchlog' = Append(fetchlog, FetchCall)
    /\ pc' = "old_fetching"
    /\ UNCHANGED <<oldvars, log, method, req, reqheaders, res, url, scheme, host, payload,
                   range_start, range_end, ignoreheaders, fetched, exc, final, raised>>

\* line 253
OldFetchReturns ==
    /\ pc = "old_fetching"
    /\ \E f \in OldFetchResults :
          /\ fetched' = f
          /\ res' = SetHeader(res, EIGEN_HEADER_KEY, RETRIEVED_FROM_NET)
    /\ pc' = "old_shape"
    /\ UNCHANGED <<oldvars, log, method, req, reqheaders, url, scheme, host, payload,
                   range_start, range_end, ignoreheaders, fetchlog, exc, final, raised>>

\* lines 254-269: an invalid url is given no result string
OldFetchRaises ==
    /\ pc = "old_fetching"
    /\ \E e \in FetchErrors :
          /\ raised' = e
          /\ res' = error(IF ErrorClass(e) = "InvalidURLError" THEN res
                          ELSE SetHeader(res, EIGEN_HEADER_KEY, FetchErrorResult(e)),
                          FetchErrorStatus(e))
    /\ pc' = "old_return"
    /\ UNCHANGED <<oldvars, log, method, req, reqheaders, url, scheme, host, payload,
                   range_start, range_end, ignoreheaders, fetchlog, fetched, exc, final>>

\* proxy.py lines 127-134, _send_response: the origin's headers are copied, the
\* content is written and, with error=, self.error(error) sets the status and
\* clears what was written
old_send_response(r, fheaders, ignore, content, err) ==
    LET sent == [r EXCEPT !.headers = copy_headers(fheaders, r.headers, ignore),
                          !.out = r.out \o content]
    IN  IF err # 0 THEN error(sent, err) ELSE sent

\* content[start:end + 1] for 0 <= start
Slice(content, start, end) ==
    SubSeq(content, start + 1, IF end + 1 < Len(content) THEN end + 1 ELSE Len(content))

\* 'bytes %d-%d/%d' % (start, end, total)
CRangeStr(start, end, total) ==
    <<"bytes ", ToString(start), "-", ToString(end), "/", ToString(total)>>

\* what lines 271-366 leave: the response, whether an exception left the
\* handler, and the message logged on the branch taken ("" when no branch of
\* the handler was taken and it returned at its end)
Outcome(r, raises, message) == [res |-> r, raises |-> raises, message |-> message]

\* lines 302-312: a 200 for a range that was kept is sliced and answered 206;
\* urange_end + 1 raises TypeError when urange_end is None (a suffix range)
Sliced200(r, f, ignore) ==
    LET r206 == set_status(r, 206)
    IN  IF urange_end.none
        THEN Outcome(r206, TRUE, "Upstream range kept and got 200 response, slicing and converting to 206")
        ELSE Outcome(
               old_send_response(
                 SetHeader(r206, "content-range",
                           CRangeStr(urange_start, urange_end.v, Len(f.content))),
                 f.headers, ignore, Slice(f.content, urange_start, urange_end.v), 0),
               FALSE, "Upstream range kept and got 200 response, slicing and converting to 206")

\* lines 332-366: a 206 whose Content-Range parsed
Parsed206(r, f, ignore, parsed) ==
    LET entire == parsed.start = 0 /\ parsed.end = parsed.total - 1
    IN  IF ~Truthy(urange)
        THEN IF entire
             THEN Outcome(old_send_response(set_status(r, 200), f.headers,
                                            ignore \cup {"content-range"}, f.content, 0),
                          FALSE, "Got entire entity, converting to 200 response to fulfill non-range request")
             ELSE Outcome(old_send_response(r, f.headers, ignore, f.content, 503),
                          FALSE, "Did not get entire entity so cannot fulfill non-range request, returning 503")
        ELSE IF urange_kept
        THEN Outcome(old_send_response(r, f.headers, ignore, f.content, 0), FALSE,
                     IF parsed.start = urange_start
                          /\ parsed.total <= urange_nbytesrequested.v
                     THEN "Upstream 206 response fulfills upstream range request, returning as-is"
                     ELSE "Returning upstream 206 response as-is, originator should verify")
        ELSE IF urange_openended
        THEN IF parsed.end # parsed.total - 1
             THEN Outcome(old_send_response(r, f.headers, ignore, f.content, 503), FALSE,
                          "Could only request last bytes of entity, returning 503")
             ELSE Outcome(old_send_response(r, f.headers, ignore, f.content, 0), FALSE,
                          "Upstream 206 response fulfills open-ended upstream range request, returning as-is")
        ELSE Outcome(old_send_response(r, f.headers, ignore, f.content, 500), FALSE,
                     "Reached unexpected code path")

\* lines 271-366
OldShaped(r, f) ==
    LET ignore == ResponseIgnore(f.headers)
        r0 == set_status(r, f.status_code)
        crange == Get(f.headers, "content-range", <<>>)
        parsed == ParseContentRange(crange)
    IN  IF f.content_was_truncated
        THEN Outcome(old_send_response(SetHeader(r0, TRUNC_HEADER_KEY, <<"True">>),
                                       f.headers, ignore, f.content, 0),
                     FALSE, "urlfetch returned truncated response, returning as-is")
        ELSE IF method \notin RANGE_METHODS
        THEN Outcome(old_send_response(r0, f.headers, ignore, f.content, 0),
                     FALSE, "Non-range method, returning response as-is")
        ELSE IF f.status_code = 200
        THEN IF ~urange_kept
             THEN Outcome(old_send_response(SetHeader(r0, UPSTREAM_206, <<"False">>),
                                            f.headers, ignore, f.content, 0),
                          FALSE, "Upstream range (if any) not kept and got 200 response, returning as-is")
             ELSE Sliced200(SetHeader(r0, UPSTREAM_206, <<"False">>), f, ignore)
        ELSE IF f.status_code = 206
        THEN LET r1 == SetHeader(SetHeader(r0, UPSTREAM_206, <<"True">>),
                                 UPSTREAM_CONTENT_RANGE, crange)
             IN  IF ~parsed.ok
                 THEN Outcome(old_send_response(r1, f.headers, ignore, f.content, 0),
                              FALSE, "Error parsing upstream Content-Range, returning 206 response as-is")
                 ELSE Parsed206(r1, f, ignore, parsed)
        \* neither `if status == 200` nor `elif status == 206`: the handler ends
        ELSE Outcome(r0, FALSE, "")

OldShape ==
    /\ pc = "old_shape"
    /\ \E o \in {OldShaped(res, fetched)} :
          /\ res' = o.res
          /\ log' = IF o.message = "" THEN log ELSE Append(log, o.message)
          /\ exc' = IF o.raises THEN "TypeError" ELSE exc
          /\ pc' = IF o.raises THEN "uncaught" ELSE "old_return"
    /\ ignoreheaders' = ResponseIgnore(fetched.headers)
    /\ UNCHANGED <<oldvars, method, req, reqheaders, url, scheme, host, payload,
                   range_start, range_end, fetchlog, fetched, final, raised>>

\* where the older handler is running
OldRunning ==
    /\ pc \in {"old_url", "old_payload", "old_strip", "old_range", "old_fetch",
               "old_fetching", "old_shape"}
    /\ exc = "none"

\* proxy.py lines 376-379: the status and the result string are set; what was
\* written stays
OldDeadlineExceeded ==
    /\ OldRunning
    /\ res' = SetHeader(set_status(res, 503), EIGEN_HEADER_KEY, OldMissedDeadlineGae)
    /\ exc' = "DeadlineExceededError"
    /\ pc' = "old_return"
    /\ UNCHANGED <<oldvars, log, method, req, reqheaders, url, scheme, host, payload,
                   range_start, range_end, ignoreheaders, fetchlog, fetched, final, raised>>

\* the wrapper returns and the response goes to the client
OldReturn ==
    /\ pc = "old_return"
    /\ final' = [status |-> res.status, headers |-> res.headers, body |-> res.out]
    /\ pc' = "done"
    /\ UNCHANGED <<oldvars, log, method, req, reqheaders, res, url, scheme, host, payload,
                   range_start, range_end, ignoreheaders, fetchlog, fetched, exc, raised>>

OldNext ==
    \/ OldExtractUrl
    \/ OldCheckPayload
    \/ OldStripRequestHeaders
    \/ OldPlanRange
    \/ OldFetch
    \/ OldFetchReturns
    \/ OldFetchRaises
    \/ OldShape
    \/ OldDeadlineExceeded
    \/ OldReturn
    \/ InternalServerError

OldSpec == OldInit /\ [][OldNext]_vars

(***************************************************************************)
(* Claims about the older handler, checked under OldSpec.                  *)
(***************************************************************************)
\* a GET for which fetch() returned and which the deadline let finish
OldRelayed == Done /\ method = "get" /\ fetched # NoFetched /\ ~DeadlineFired

\* the origin's headers that are not hop-by-hop are in the final response
\* (Content-Range apart, which line 338 adds to the headers to strip)
OriginHeadersCopied ==
    \A k \in DOMAIN fetched.headers :
        LowerAtom(k) \notin ResponseIgnore(fetched.headers) \cup {"content-range"}
            => /\ Has(final.headers, k)
               /\ Get(final.headers, k, <<>>) = fetched.headers[k]

\* C32 as claimed: every result fetch() returns for a GET is relayed through
\* _send_response whatever its status: the origin's headers are copied after
\* stripping and, where the origin's status is the answer's, the origin's
\* content is the answer's body.  (Fails: a non-truncated answer that is
\* neither 200 nor 206 leaves the handler without _send_response.)
C32_EveryResultIsSent ==
    OldRelayed =>
        /\ OriginHeadersCopied
        /\ final.status = fetched.status_code => final.body = fetched.content

\* the client's Range was kept and the origin answered a non-truncated 200
Kept200 ==
    /\ OldRelayed
    /\ urange_kept
    /\ fetched.status_code = 200
    /\ ~fetched.content_was_truncated

\* C33 as claimed: a kept Range answered by a non-truncated 200 is answered 206
\* with a Content-Range 'bytes s-e/len' where len is the origin's body length,
\* e - s + 1 the number of bytes sent and 0 <= s <= e < len.  (Fails: e is the
\* requested end, not the end of what was sent, and a suffix range raises
\* TypeError.)
C33_SlicedRangeConsistent ==
    Kept200 =>
        LET cr == ParseContentRange(Get(final.headers, "Content-Range", <<>>))
        IN  /\ final.status = 206
            /\ cr.ok
            /\ cr.total = Len(fetched.content)
            /\ cr.end - cr.start + 1 = Len(final.body)
            /\ 0 <= cr.start /\ cr.start <= cr.end /\ cr.end < cr.total

\* how many of the three cases of lines 333, 344 and 356 hold
RangeCases ==
    (IF ~Truthy(urange) THEN 1 ELSE 0) + (IF urange_kept THEN 1 ELSE 0)
        + (IF urange_openended THEN 1 ELSE 0)

\* C34: the branch 'Reached unexpected code path' is never taken, and every GET
\* that reaches fetch() is in exactly one of the cases: no usable client Range
\* (the proxy sent its own), client Range kept, open-ended client Range capped.
C34_UnexpectedBranchUnreachable ==
    /\ \A i \in 1..Len(log) : log[i] # "Reached unexpected code path"
    /\ (method = "get" /\ (pc = "old_fetch" \/ fetchlog # <<>>)) => RangeCases = 1

\* an open-ended Range, capped, answered by a non-truncated 206 that reaches the
\* end of the entity, relayed as 206
C34_Witness ==
    /\ OldRelayed
    /\ urange_openended
    /\ fetched.status_code = 206
    /\ ~fetched.content_was_truncated
    /\ ParseContentRange(Get(fetched.headers, "content-range", <<>>)).ok
    /\ final.status = 206
    /\ final.body = fetched.content
    /\ log = <<"Upstream 206 response fulfills open-ended upstream range request, returning as-is">>

====
